---- MODULE Spec2Model ----
(***************************************************************************)
(* Literature Search Builder (src/src/App.tsx): the query configuration,  *)
(* the term-pattern compiler, the boolean evaluator, the run that          *)
(* classifies the parsed records and the span collector of the            *)
(* highlighter.                                                            *)
(*                                                                         *)
(* Texts are sequences of one-character strings.  Positions inside the    *)
(* regular-expression matcher and inside spans are 0-based offsets, as in  *)
(* JavaScript; sequence indices are 1-based.                               *)
(***************************************************************************)
EXTENDS Integers, Sequences, FiniteSets, TLC

\* cfg, bib, queryString, runOutput, matchedBib: the state of the App component;
\* nextUid: the next fresh token uid() hands out; budget: the handler calls left;
\* evalIn, evalOut: the argument and the result of one call of the evaluator;
\* spanIn, spanOut: the argument and the result of one call of the highlighter
VARIABLES cfg, bib, queryString, runOutput, matchedBib, nextUid, budget, evalIn, evalOut, spanIn, spanOut,
          alerts, callIn, callOut

vars == <<cfg, bib, queryString, runOutput, matchedBib, nextUid, budget, evalIn, evalOut, spanIn, spanOut,
          alerts, callIn, callOut>>

(***************************************************************************)
(* Characters                                                              *)
(***************************************************************************)
Lowers == <<"a","b","c","d","e","f","g","h","i","j","k","l","m","n","o","p","q","r","s","t","u","v","w","x","y","z">>
Uppers == <<"A","B","C","D","E","F","G","H","I","J","K","L","M","N","O","P","Q","R","S","T","U","V","W","X","Y","Z">>
Digits == <<"0","1","2","3","4","5","6","7","8","9">>

SeqRange(s) == {s[i] : i \in 1..Len(s)}

LowerSet == SeqRange(Lowers)
UpperSet == SeqRange(Uppers)
DigitSet == SeqRange(Digits)

\* the characters of the model in code-unit order (the grave accent is left out)
AsciiSeq ==
  <<"\t", "\n", "\r", " ", "!", "\"", "#", "$", "%", "&", "'", "(", ")", "*", "+", ",", "-", ".", "/">>
  \o Digits \o <<":", ";", "<", "=", ">", "?", "@">> \o Uppers
  \o <<"[", "\\", "]", "^", "_">> \o Lowers \o <<"{", "|", "}", "~">>

AsciiSet == SeqRange(AsciiSeq)

CharCode == [c \in AsciiSet |-> CHOOSE i \in 1..Len(AsciiSeq) : AsciiSeq[i] = c]

LowerOf == [c \in UpperSet |-> Lowers[CHOOSE i \in 1..26 : Uppers[i] = c]]
UpperOf == [c \in LowerSet |-> Uppers[CHOOSE i \in 1..26 : Lowers[i] = c]]

\* String.prototype.toLowerCase / toUpperCase on one character
ToLowerCh(c) == IF c \in UpperSet THEN LowerOf[c] ELSE c
ToUpperCh(c) == IF c \in LowerSet THEN UpperOf[c] ELSE c

\* the character classes \w, \s and \d of a RegExp without the u flag
WordChars == LowerSet \cup UpperSet \cup DigitSet \cup {"_"}
SpaceChars == {" ", "\t", "\n", "\r"}

DigitVal == [c \in DigitSet |-> (CHOOSE i \in 1..10 : Digits[i] = c) - 1]

(***************************************************************************)
(* Sequence helpers                                                        *)
(***************************************************************************)
\* const v = ...; Body: the value is computed once and named in Body
With(v, Body(_)) == Body(v)

\* String.prototype.slice(from, to) with 0-based from (inclusive) and to (exclusive)
Slice(s, from, to) ==
  LET f == IF from < 0 THEN 0 ELSE IF from > Len(s) THEN Len(s) ELSE from
      t == IF to < 0 THEN 0 ELSE IF to > Len(s) THEN Len(s) ELSE to
  IN IF t <= f THEN <<>> ELSE SubSeq(s, f + 1, t)

MinOf(S) == CHOOSE x \in S : \A y \in S : x <= y
MaxOf(S) == CHOOSE x \in S : \A y \in S : x >= y

\* ss[lo] \o ... \o ss[hi]
RECURSIVE Flatten(_, _, _)
Flatten(ss, lo, hi) ==
  CASE lo > hi -> <<>>
    [] lo = hi -> ss[lo]
    [] lo + 1 = hi -> ss[lo] \o ss[hi]
    [] lo + 2 = hi -> ss[lo] \o ss[lo + 1] \o ss[hi]
    [] OTHER -> (Flatten(ss, lo, lo + ((hi - lo + 1) \div 4) - 1)
                 \o Flatten(ss, lo + ((hi - lo + 1) \div 4), lo + 2 * ((hi - lo + 1) \div 4) - 1))
                \o (Flatten(ss, lo + 2 * ((hi - lo + 1) \div 4), lo + 3 * ((hi - lo + 1) \div 4) - 1)
                    \o Flatten(ss, lo + 3 * ((hi - lo + 1) \div 4), hi))

FlattenAll(ss) == IF Len(ss) = 0 THEN <<>> ELSE Flatten(ss, 1, Len(ss))

\* ss \o <<>> is ss, with its elements computed once
Concat(ss) == FlattenAll(ss \o <<>>)

\* String.prototype.trimStart / trimEnd / trim
TrimStart(s) ==
  LET keep == {i \in 1..Len(s) : s[i] \notin SpaceChars}
  IN IF keep = {} THEN <<>> ELSE SubSeq(s, MinOf(keep), Len(s))

TrimEnd(s) ==
  LET keep == {i \in 1..Len(s) : s[i] \notin SpaceChars}
  IN IF keep = {} THEN <<>> ELSE SubSeq(s, 1, MaxOf(keep))

Trim(s) == TrimEnd(TrimStart(s))

MapLower(s) == [i \in 1..Len(s) |-> ToLowerCh(s[i])]

MapUpper(s) == [i \in 1..Len(s) |-> ToUpperCh(s[i])]

\* s.startsWith(pre) from 0-based offset p
StartsWithAt(s, p, pre) == p + Len(pre) <= Len(s) /\ SubSeq(s, p + 1, p + Len(pre)) = pre

\* Array.prototype.sort with comparator Cmp (a stable sort): the element at rank r
SortStable(seq, Cmp(_, _)) ==
  LET n == Len(seq)
      rank(i) == 1 + Cardinality({j \in 1..n : Cmp(seq[j], seq[i]) < 0 \/ (Cmp(seq[j], seq[i]) = 0 /\ j < i)})
  IN [r \in 1..n |-> seq[CHOOSE i \in 1..n : rank(i) = r]] \o <<>>

\* Array.prototype.join
JoinSeqs(ss, sep) == Concat([i \in 1..Len(ss) |-> IF i = 1 THEN ss[i] ELSE sep \o ss[i]])

(***************************************************************************)
(* RegExp: new RegExp(source, flags) without the u flag (the Annex B       *)
(* grammar).  RegExpParse is the constructor: a pattern is a sequence of   *)
(* alternatives, an alternative a sequence of terms.  Back-references,     *)
(* look-behind, named groups, \c, \x and \u escapes are outside the       *)
(* patterns of the model.                                                  *)
(***************************************************************************)
SyntaxError == [ok |-> FALSE, node |-> <<>>, p |-> 0]

Parsed(node, p) == [ok |-> TRUE, node |-> node, p |-> p]

RECURSIVE ParseDigits(_, _, _)
ParseDigits(src, p, acc) ==
  IF p <= Len(src) /\ src[p] \in DigitSet
  THEN ParseDigits(src, p + 1, acc * 10 + DigitVal[src[p]])
  ELSE [val |-> acc, p |-> p]

NoQuantifier(p) == [has |-> FALSE, ok |-> TRUE, min |-> 1, max |-> 1, p |-> p]

Quantifier(lo, hi, np) ==
  [has |-> TRUE, ok |-> hi = -1 \/ lo <= hi, min |-> lo, max |-> hi, greedy |-> TRUE, p |-> np]

\* the quantifier at src[p], if any, before its lazy mark: {min,max} with max = -1 for no upper limit
QuantifierPrefix(src, p) ==
  IF p > Len(src) THEN NoQuantifier(p)
  ELSE IF src[p] = "*" THEN Quantifier(0, -1, p + 1)
  ELSE IF src[p] = "+" THEN Quantifier(1, -1, p + 1)
  ELSE IF src[p] = "?" THEN Quantifier(0, 1, p + 1)
  ELSE IF src[p] = "{" /\ p + 1 <= Len(src) /\ src[p + 1] \in DigitSet
  THEN With(ParseDigits(src, p + 1, 0), LAMBDA lo :
         IF lo.p <= Len(src) /\ src[lo.p] = "}" THEN Quantifier(lo.val, lo.val, lo.p + 1)
         ELSE IF lo.p + 1 <= Len(src) /\ src[lo.p] = "," /\ src[lo.p + 1] = "}"
         THEN Quantifier(lo.val, -1, lo.p + 2)
         ELSE IF lo.p + 1 <= Len(src) /\ src[lo.p] = "," /\ src[lo.p + 1] \in DigitSet
         THEN With(ParseDigits(src, lo.p + 1, 0), LAMBDA hi :
                IF hi.p <= Len(src) /\ src[hi.p] = "}" THEN Quantifier(lo.val, hi.val, hi.p + 1)
                ELSE NoQuantifier(p))
         ELSE NoQuantifier(p))
  ELSE NoQuantifier(p)

\* the quantifier at src[p], if any, with its lazy mark
ParseQuantifier(src, p) ==
  With(QuantifierPrefix(src, p), LAMBDA q :
    IF q.has /\ q.p <= Len(src) /\ src[q.p] = "?" THEN [q EXCEPT !.greedy = FALSE, !.p = q.p + 1] ELSE q)

\* the set a character-class escape stands for; <<>> marks "not a class escape"
ClassEscape(d) ==
  CASE d = "w" -> [k |-> "set", s |-> WordChars, neg |-> FALSE]
    [] d = "W" -> [k |-> "set", s |-> WordChars, neg |-> TRUE]
    [] d = "s" -> [k |-> "set", s |-> SpaceChars, neg |-> FALSE]
    [] d = "S" -> [k |-> "set", s |-> SpaceChars, neg |-> TRUE]
    [] d = "d" -> [k |-> "set", s |-> DigitSet, neg |-> FALSE]
    [] d = "D" -> [k |-> "set", s |-> DigitSet, neg |-> TRUE]
    [] OTHER -> [k |-> "none"]

\* the character an identity or control escape stands for
EscapedChar(d) ==
  CASE d = "t" -> "\t"
    [] d = "n" -> "\n"
    [] d = "r" -> "\r"
    [] OTHER -> d

\* the members of a character class from src[p] up to its closing bracket;
\* a class escape inside the class contributes its positive set only when not negated
RECURSIVE ParseClassItems(_, _, _, _)
ParseClassItems(src, p, acc, negs) ==
  IF p > Len(src) THEN SyntaxError
  ELSE IF src[p] = "]" THEN Parsed([s |-> acc, negs |-> negs], p + 1)
  ELSE LET esc == src[p] = "\\"
           ce == IF esc /\ p + 1 <= Len(src) THEN ClassEscape(src[p + 1]) ELSE [k |-> "none"]
           lo == IF esc THEN (IF p + 1 <= Len(src) THEN EscapedChar(src[p + 1]) ELSE "\\") ELSE src[p]
           q == IF esc THEN p + 2 ELSE p + 1
       IN IF esc /\ p + 1 > Len(src) THEN SyntaxError
          ELSE IF ce.k = "set"
          THEN IF ce.neg THEN ParseClassItems(src, q, acc, negs \cup {ce.s})
               ELSE ParseClassItems(src, q, acc \cup ce.s, negs)
          ELSE IF q + 1 <= Len(src) /\ src[q] = "-" /\ src[q + 1] # "]"
                  /\ ~(src[q + 1] = "\\" /\ q + 2 <= Len(src) /\ ClassEscape(src[q + 2]).k = "set")
          THEN LET hesc == src[q + 1] = "\\"
                   hi == IF hesc THEN (IF q + 2 <= Len(src) THEN EscapedChar(src[q + 2]) ELSE "\\") ELSE src[q + 1]
                   r == IF hesc THEN q + 3 ELSE q + 2
               IN IF hesc /\ q + 2 > Len(src) THEN SyntaxError
                  ELSE IF CharCode[lo] > CharCode[hi] THEN SyntaxError
                  ELSE ParseClassItems(src, r, acc \cup {c \in AsciiSet : CharCode[lo] <= CharCode[c] /\ CharCode[c] <= CharCode[hi]}, negs)
          ELSE ParseClassItems(src, q, acc \cup {lo}, negs)

\* the class starting at src[p] = "["
ParseClass(src, p) ==
  With(ParseClassItems(src, IF p + 1 <= Len(src) /\ src[p + 1] = "^" THEN p + 2 ELSE p + 1, {}, {}), LAMBDA r :
    IF ~r.ok THEN SyntaxError
    ELSE Parsed([k |-> "set",
                 s |-> r.node.s \cup {c \in AsciiSet : \E n \in r.node.negs : c \notin n},
                 neg |-> p + 1 <= Len(src) /\ src[p + 1] = "^"], r.p))

RECURSIVE ParseDisjunction(_, _)
RECURSIVE ParseAlternative(_, _, _)
RECURSIVE ParseTerm(_, _)

\* an atom followed by its optional quantifier
Quantified(src, atom, p) ==
  With(ParseQuantifier(src, p), LAMBDA q :
    IF ~q.ok THEN SyntaxError
    ELSE IF q.has THEN Parsed([k |-> "rep", atom |-> atom, min |-> q.min, max |-> q.max, greedy |-> q.greedy], q.p)
    ELSE Parsed([k |-> "rep", atom |-> atom, min |-> 1, max |-> 1, greedy |-> TRUE], p))

\* an assertion: a quantifier after it is "nothing to repeat"
Assertion(src, node, p) ==
  IF ParseQuantifier(src, p).has THEN SyntaxError ELSE Parsed(node, p)

\* what stands at src[p] before a quantifier: an assertion, an atom, or an error
HeadAssertion(node, p) == [kind |-> "assert", node |-> node, p |-> p]
HeadAtom(node, p) == [kind |-> "atom", node |-> node, p |-> p]
HeadError == [kind |-> "error", node |-> <<>>, p |-> 0]

GroupKind(src, p) ==
  IF StartsWithAt(src, p, <<"?", ":">>) THEN "grp"
  ELSE IF StartsWithAt(src, p, <<"?", "=">>) THEN "la"
  ELSE IF StartsWithAt(src, p, <<"?", "!">>) THEN "nla"
  ELSE IF StartsWithAt(src, p, <<"?">>) THEN "bad"
  ELSE "cap"

\* the group that opens at src[p] = "(", up to its closing parenthesis
ParseGroup(src, p) ==
  With(GroupKind(src, p), LAMBDA kind :
    With(ParseDisjunction(src, IF kind \in {"grp", "la", "nla"} THEN p + 3 ELSE p + 1), LAMBDA body :
      IF kind = "bad" \/ ~body.ok THEN HeadError
      ELSE IF body.p > Len(src) \/ src[body.p] # ")" THEN HeadError
      ELSE IF kind \in {"la", "nla"} THEN HeadAtom([k |-> "la", alts |-> body.node, neg |-> kind = "nla"], body.p + 1)
      ELSE HeadAtom([k |-> "grp", alts |-> body.node], body.p + 1)))

ParseHead(src, p) ==
  With(src[p], LAMBDA c :
    CASE c = "^" -> HeadAssertion([k |-> "bol"], p + 1)
      [] c = "$" -> HeadAssertion([k |-> "eol"], p + 1)
      [] c = "\\" ->
           IF p + 1 > Len(src) THEN HeadError
           ELSE IF src[p + 1] = "b" THEN HeadAssertion([k |-> "wb"], p + 2)
           ELSE IF src[p + 1] = "B" THEN HeadAssertion([k |-> "nwb"], p + 2)
           ELSE With(ClassEscape(src[p + 1]), LAMBDA ce :
                  IF ce.k = "set" THEN HeadAtom(ce, p + 2)
                  ELSE HeadAtom([k |-> "chr", c |-> EscapedChar(src[p + 1])], p + 2))
      [] c = "(" -> ParseGroup(src, p)
      [] c = "[" -> With(ParseClass(src, p), LAMBDA cl : IF cl.ok THEN HeadAtom(cl.node, cl.p) ELSE HeadError)
      [] c = "." -> HeadAtom([k |-> "any"], p + 1)
      [] c \in {"*", "+", "?"} -> HeadError
      [] c = "{" -> IF ParseQuantifier(src, p).has THEN HeadError ELSE HeadAtom([k |-> "chr", c |-> c], p + 1)
      [] OTHER -> HeadAtom([k |-> "chr", c |-> c], p + 1))

ParseTerm(src, p) ==
  With(ParseHead(src, p), LAMBDA h :
    IF h.kind = "error" THEN SyntaxError
    ELSE IF h.kind = "assert" THEN Assertion(src, h.node, h.p)
    ELSE Quantified(src, h.node, h.p))

\* one pass of the loop over the terms of an alternative; st = [ok, done, p, acc]
altStep(src, st) ==
  IF st.done THEN st
  ELSE IF st.p > Len(src) \/ src[st.p] \in {"|", ")"} THEN [st EXCEPT !.done = TRUE]
  ELSE With(ParseTerm(src, st.p), LAMBDA r :
         IF ~r.ok THEN [st EXCEPT !.ok = FALSE, !.done = TRUE]
         ELSE [st EXCEPT !.p = r.p, !.acc = Append(st.acc, r.node)])

RECURSIVE altIterate(_, _, _)
altIterate(src, k, st) ==
  CASE k = 0 -> st
    [] k = 1 -> altStep(src, st)
    [] OTHER -> CHOOSE r \in {altIterate(src, k \div 4, m3) :
                  m3 \in {altIterate(src, (k + 1) \div 4, m2) :
                    m2 \in {altIterate(src, (k + 2) \div 4, m1) :
                      m1 \in {altIterate(src, (k + 3) \div 4, st)}}}} : TRUE

\* the terms from src[p] up to the next "|" or ")": every pass consumes a character or ends the loop
ParseAlternative(src, p, acc) ==
  With(altIterate(src, Len(src) - p + 2, [ok |-> TRUE, done |-> FALSE, p |-> p, acc |-> acc]), LAMBDA st :
    IF st.ok THEN Parsed(st.acc, st.p) ELSE SyntaxError)

ParseDisjunction(src, p) ==
  With(ParseAlternative(src, p, <<>>), LAMBDA a :
    IF ~a.ok THEN SyntaxError
    ELSE IF a.p <= Len(src) /\ src[a.p] = "|"
    THEN With(ParseDisjunction(src, a.p + 1), LAMBDA rest :
           IF ~rest.ok THEN SyntaxError ELSE Parsed(<<a.node>> \o rest.node, rest.p))
    ELSE Parsed(<<a.node>>, a.p))

\* new RegExp(source, flags): ok = FALSE is the SyntaxError it throws
RegExpParse(source, flags) ==
  With(ParseDisjunction(source, 1), LAMBDA r :
    IF r.ok /\ r.p = Len(source) + 1
    THEN [ok |-> TRUE, source |-> source, flags |-> flags, alts |-> r.node]
    ELSE [ok |-> FALSE, source |-> source, flags |-> flags, alts |-> <<>>])

(***************************************************************************)
(* RegExp matching: the backtracking matcher.  Each operator returns the   *)
(* end offsets of the matches that start at offset p, in the order in      *)
(* which backtracking tries them; the first one is the match exec reports. *)
(***************************************************************************)
\* Canonicalize of ECMAScript: upper-casing under the i flag; fl is the set of flags
Canon(c, fl) == IF "i" \in fl THEN ToUpperCh(c) ELSE c

CharMatches(atom, ch, fl) ==
  CASE atom.k = "chr" -> Canon(ch, fl) = Canon(atom.c, fl)
    [] atom.k = "set" -> (IF "i" \in fl THEN \E m \in atom.s : Canon(m, fl) = Canon(ch, fl) ELSE ch \in atom.s) # atom.neg
    [] atom.k = "any" -> "s" \in fl \/ ch \notin {"\n", "\r"}

IsWordCharAt(t, i) == i >= 0 /\ i < Len(t) /\ t[i + 1] \in WordChars

\* \b holds at offset p
IsWordBoundary(t, p) == IsWordCharAt(t, p - 1) # IsWordCharAt(t, p)

RECURSIVE MatchAlts(_, _, _, _, _)
RECURSIVE MatchSeq(_, _, _, _, _)
RECURSIVE MatchRange(_, _, _, _, _, _)
RECURSIVE MatchTerm(_, _, _, _)
RECURSIVE MatchRep(_, _, _, _, _, _, _)
RECURSIVE MatchRepOver(_, _, _, _, _, _, _, _, _)
RECURSIVE MatchStarIterate(_, _, _, _, _, _)

MatchAtom(atom, t, fl, p) ==
  CASE atom.k = "grp" -> MatchAlts(atom.alts, 1, t, fl, p)
    [] atom.k = "la" -> IF (MatchAlts(atom.alts, 1, t, fl, p) # <<>>) # atom.neg THEN <<p>> ELSE <<>>
    [] OTHER -> IF p < Len(t) /\ CharMatches(atom, t[p + 1], fl) THEN <<p + 1>> ELSE <<>>

\* the alternatives from the a-th on, each tried in turn
MatchAlts(alts, a, t, fl, p) ==
  Concat([k \in 1..(Len(alts) - a + 1) |-> MatchSeq(alts[a + k - 1], 1, t, fl, p)])

\* the terms from the i-th on, matched one after the other from offset p
MatchSeq(items, i, t, fl, p) ==
  IF i > Len(items) THEN <<p>>
  ELSE MatchRange(items, i, Len(items), t, fl, <<p>>)

\* items[lo..hi] matched one after the other from each offset of starts, in the order of starts
MatchRange(items, lo, hi, t, fl, starts) ==
  CASE starts = <<>> -> <<>>
    [] starts # <<>> /\ lo = hi -> Concat([k \in 1..Len(starts) |-> MatchTerm(items[lo], t, fl, starts[k])])
    [] starts # <<>> /\ lo < hi /\ hi - lo < 3 ->
         CHOOSE r \in {MatchRange(items, lo + 1, hi, t, fl, m1) : m1 \in {MatchRange(items, lo, lo, t, fl, starts)}} : TRUE
    [] OTHER ->
         CHOOSE r \in {MatchRange(items, lo + 3 * ((hi - lo + 1) \div 4), hi, t, fl, m3) :
           m3 \in {MatchRange(items, lo + 2 * ((hi - lo + 1) \div 4), lo + 3 * ((hi - lo + 1) \div 4) - 1, t, fl, m2) :
             m2 \in {MatchRange(items, lo + ((hi - lo + 1) \div 4), lo + 2 * ((hi - lo + 1) \div 4) - 1, t, fl, m1) :
               m1 \in {MatchRange(items, lo, lo + ((hi - lo + 1) \div 4) - 1, t, fl, starts)}}}} : TRUE

MatchTerm(term, t, fl, p) ==
  CASE term.k = "bol" -> IF p = 0 THEN <<p>> ELSE <<>>
    [] term.k = "eol" -> IF p = Len(t) THEN <<p>> ELSE <<>>
    [] term.k = "wb" -> IF IsWordBoundary(t, p) THEN <<p>> ELSE <<>>
    [] term.k = "nwb" -> IF ~IsWordBoundary(t, p) THEN <<p>> ELSE <<>>
    [] term.k = "rep" -> MatchRep(term.atom, term.min, term.max, term.greedy, t, fl, p)

\* an iteration that matches the empty string is not repeated once min is reached
MatchRep(atom, min, max, greedy, t, fl, p) ==
  IF max = 0 THEN <<p>>
  ELSE IF atom.k \in {"chr", "set", "any"}
  THEN \* a one-character atom: the run of matching characters from p, longest first when greedy
       LET last == IF max = -1 \/ p + max > Len(t) THEN Len(t) ELSE p + max
           bad == {i \in p..(last - 1) : ~CharMatches(atom, t[i + 1], fl)}
           run == (IF bad = {} THEN last ELSE MinOf(bad)) - p
       IN IF run < min THEN <<>>
          ELSE [j \in 1..(run - min + 1) |-> IF greedy THEN p + run - (j - 1) ELSE p + min + (j - 1)]
  ELSE IF min = 0 /\ max = -1
  THEN \* a starred group: the ends from every offset q >= p, filled in from the end of the text down
       MatchStarIterate(atom, greedy, t, fl, Len(t) - p + 1, [q |-> Len(t), tab |-> <<>>]).tab[1]
  ELSE LET more == MatchRepOver(MatchAtom(atom, t, fl, p), 1, atom, min, max, greedy, t, fl, p)
       IN IF min > 0 THEN more
          ELSE IF greedy THEN more \o <<p>>
          ELSE <<p>> \o more

\* st.tab[i] holds the ends of atom* from offset st.q + i; one step adds those from offset st.q
MatchStarStep(atom, greedy, t, fl, st) ==
  LET q == st.q
      firsts == MatchAtom(atom, t, fl, q)
      more == Concat([i \in 1..Len(firsts) |-> IF firsts[i] = q THEN <<>> ELSE st.tab[firsts[i] - q]])
  IN [q |-> q - 1, tab |-> <<IF greedy THEN more \o <<q>> ELSE <<q>> \o more>> \o st.tab]

MatchStarIterate(atom, greedy, t, fl, k, st) ==
  CASE k = 0 -> st
    [] k = 1 -> MatchStarStep(atom, greedy, t, fl, st)
    [] OTHER -> CHOOSE r \in {MatchStarIterate(atom, greedy, t, fl, k \div 4, m3) :
                  m3 \in {MatchStarIterate(atom, greedy, t, fl, (k + 1) \div 4, m2) :
                    m2 \in {MatchStarIterate(atom, greedy, t, fl, (k + 2) \div 4, m1) :
                      m1 \in {MatchStarIterate(atom, greedy, t, fl, (k + 3) \div 4, st)}}}} : TRUE

MatchRepOver(ends, k, atom, min, max, greedy, t, fl, p) ==
  IF k > Len(ends) THEN <<>>
  ELSE (IF min = 0 /\ ends[k] = p THEN <<>>
        ELSE MatchRep(atom, IF min > 0 THEN min - 1 ELSE 0, IF max = -1 THEN -1 ELSE max - 1, greedy, t, fl, ends[k]))
       \o MatchRepOver(ends, k + 1, atom, min, max, greedy, t, fl, p)

NoMatch == [found |-> FALSE, index |-> 0, end |-> 0]

\* endsAt[i] holds the ends of the matches that start at offset from + i - 1
MatchFound(from, endsAt) ==
  LET good == {i \in 1..Len(endsAt) : endsAt[i] # <<>>}
  IN IF good = {} THEN NoMatch
     ELSE [found |-> TRUE, index |-> from + MinOf(good) - 1, end |-> endsAt[MinOf(good)][1]]

\* the leftmost match at or after offset from
RegExpMatchFrom(re, t, from) ==
  MatchFound(from, [i \in 1..(Len(t) - from + 1) |-> MatchAlts(re.alts, 1, t, re.flags, from + i - 1)] \o <<>>)

\* RegExp.prototype.test of a pattern without the g flag
RegExpTest(re, t) == RegExpMatchFrom(re, t, 0).found

(***************************************************************************)
(* JavaScript objects with string keys: the keys in insertion order        *)
(***************************************************************************)
ObjKeys(obj) == [i \in 1..Len(obj) |-> obj[i].key]

ObjHas(obj, key) == \E i \in 1..Len(obj) : obj[i].key = key

ObjGet(obj, key) == obj[CHOOSE i \in 1..Len(obj) : obj[i].key = key].val

\* obj[key] = val: an existing key keeps its place
ObjPut(obj, key, val) ==
  IF ObjHas(obj, key)
  THEN [i \in 1..Len(obj) |-> IF obj[i].key = key THEN [key |-> key, val |-> val] ELSE obj[i]]
  ELSE Append(obj, [key |-> key, val |-> val])

\* { ...a, ...b }
Spread(a, b) == [k \in DOMAIN a \cup DOMAIN b |-> IF k \in DOMAIN b THEN b[k] ELSE a[k]]

\* !!b.flag of an optional boolean property
Flag(b, f) == f \in DOMAIN b /\ b[f]

(***************************************************************************)
(* PatternCompiler                                                         *)
(***************************************************************************)
\* str.replace(/[set]/g, "\\$&")
EscapeChars(str, set) ==
  Concat([i \in 1..Len(str) |-> IF str[i] \in set THEN <<"\\", str[i]>> ELSE <<str[i]>>])

safeRegExp(pattern, flags) ==
  LET re == RegExpParse(pattern, flags)
  IN IF re.ok THEN re
     ELSE RegExpParse(EscapeChars(pattern, {".", "*", "+", "?", "^", "$", "{", "}", "(", ")", "|", "[", "]", "\\"}), flags)

hasRegexMeta(str) ==
  \E i \in 1..Len(str) : str[i] \in {"\\", ".", "^", "$", "|", "(", ")", "[", "]", "?", "+", "{", "}"}

escExceptStar(str) == EscapeChars(str, {".", "+", "?", "^", "$", "{", "}", "(", ")", "|", "[", "]", "\\"})

toSmartWordPattern(term, isRegex) ==
  LET t == Trim(term)
  IN IF isRegex /\ hasRegexMeta(t) THEN t
     ELSE IF t # <<>> /\ t[Len(t)] = "*"
     THEN <<"\\", "b">> \o escExceptStar(Slice(t, 0, Len(t) - 1)) \o <<"[", "\\", "w", "-", "]", "*">>
     ELSE <<"\\", "b">> \o escExceptStar(t) \o <<"\\", "b">>

(***************************************************************************)
(* Evaluator                                                               *)
(***************************************************************************)
FieldNames == <<"title", "abstract", "keywords">>

\* b.name || `Block ${idx + 1}` for the block at 0-based index idx
blockName(b, idx) == IF b.name = "" THEN "Block " \o ToString(idx + 1) ELSE b.name

\* a filter that keeps every term, the empty ones too
KeepEveryTerm(t) == TRUE

\* t.trim().length > 0
NonEmptyTerm(t) == Len(Trim(t)) > 0

\* the blocks with a non-empty term, each with its compiled terms
RECURSIVE compiledFrom(_, _)
compiledFrom(c, idx) ==
  IF idx >= Len(c.blocks) THEN <<>>
  ELSE LET b == c.blocks[idx + 1]
           terms == SelectSeq(b.terms, NonEmptyTerm)
           flags == IF c.caseInsensitive THEN {"i"} ELSE {}
           entry == [index |-> idx, name |-> blockName(b, idx), block |-> b, terms |-> terms,
                     regexes |-> [i \in 1..Len(terms) |-> safeRegExp(toSmartWordPattern(terms[i], Flag(b, "isRegex")), flags)] \o <<>>]
       IN (IF terms = <<>> THEN <<>> ELSE <<entry>>) \o compiledFrom(c, idx + 1)

evaluateQueryOnText(c) == compiledFrom(c, 0)

\* the terms of compiled block cb whose pattern hits in text t
hitsIn(cb, t, i) ==
  Concat([k \in 1..(Len(cb.terms) - i + 1) |->
            IF RegExpTest(cb.regexes[i + k - 1], t) THEN <<cb.terms[i + k - 1]>> ELSE <<>>])

\* blockHitAtLeastOne without its write to detailed: the hits per field (none for an empty text)
perFieldHitsOf(cb, texts) ==
  [title |-> IF texts.title = <<>> THEN <<>> ELSE hitsIn(cb, texts.title, 1),
   abstract |-> IF texts.abstract = <<>> THEN <<>> ELSE hitsIn(cb, texts.abstract, 1),
   keywords |-> IF texts.keywords = <<>> THEN <<>> ELSE hitsIn(cb, texts.keywords, 1)]

anyHit(pfh) == \E f \in SeqRange(FieldNames) : pfh[f] # <<>>

\* blockHitAtLeastOne(cidx): whether the block fired, and detailed after the call
blockHitAtLeastOne(compiled, cidx, texts, detailed) ==
  With(perFieldHitsOf(compiled[cidx + 1], texts), LAMBDA pfh :
    [any |-> anyHit(pfh),
     detailed |-> IF anyHit(pfh) /\ ~Flag(compiled[cidx + 1].block, "exclude")
                  THEN ObjPut(detailed, compiled[cidx + 1].name, pfh) ELSE detailed])

\* an evaluator that joins every pair of blocks with OR, whatever the operator says
applyOperatorAlwaysOr(op, val, rhs) == val \/ rhs

\* val = op === "AND" ? val && rhs : val || rhs
applyOperator(op, val, rhs) == IF op = "AND" THEN val /\ rhs ELSE val \/ rhs

\* block.exclude ? !hit : hit
contributionOf(block, hit) == IF Flag(block, "exclude") THEN ~hit ELSE hit

\* matchedBlocks after the push for a block that is not excluded and fired
pushMatched(matchedBlocks, cb, hit) ==
  IF ~Flag(cb.block, "exclude") /\ hit THEN Append(matchedBlocks, cb.name) ELSE matchedBlocks

\* the loop of matchesByFields from i on; st = [ok, matchedBlocks, detailed]
RECURSIVE foldLoop(_, _, _, _, _)
foldLoop(c, compiled, texts, i, st) ==
  IF ~(i < Len(c.operators) /\ i + 1 < Len(compiled)) THEN st
  ELSE With(blockHitAtLeastOne(compiled, i + 1, texts, st.detailed), LAMBDA h :
         foldLoop(c, compiled, texts, i + 1,
                  [ok |-> applyOperator(c.operators[i + 1], st.ok, contributionOf(compiled[i + 2].block, h.any)),
                   matchedBlocks |-> pushMatched(st.matchedBlocks, compiled[i + 2], h.any),
                   detailed |-> h.detailed]))

\* the closure evaluateQueryOnText(_, c) returns, on its compiled blocks
matchesCompiled(c, compiled, texts) ==
  IF Len(compiled) = 0 THEN [ok |-> TRUE, matchedBlocks |-> <<>>, detailed |-> <<>>]
  ELSE With(blockHitAtLeastOne(compiled, 0, texts, <<>>), LAMBDA h :
         foldLoop(c, compiled, texts, 0,
                  [ok |-> contributionOf(compiled[1].block, h.any),
                   matchedBlocks |-> pushMatched(<<>>, compiled[1], h.any),
                   detailed |-> h.detailed]))

\* the closure evaluateQueryOnText(_, c) returns, applied to a record's fields
matchesByFields(c, fields, selected) ==
  matchesCompiled(c, evaluateQueryOnText(c),
                  [title |-> IF selected.title THEN fields.title ELSE <<>>,
                   abstract |-> IF selected.abstract THEN fields.abstract ELSE <<>>,
                   keywords |-> IF selected.keywords THEN fields.keywords ELSE <<>>])

(***************************************************************************)
(* DEFAULT_CONFIG                                                          *)
(***************************************************************************)
\* the terms of Group 1, Group 2 and Group 3
Group1Terms ==
  <<<<"i","m","m","e","r","s","i","v","e"," ","v","i","r","t","u","a","l"," ","r","e","a","l","i","t","y">>,
    <<"v","i","r","t","u","a","l"," ","r","e","a","l","i","t","y">>>>

Group2Terms ==
  <<<<"r","e","m","o","t","e"," ","e","x","p","e","r","i","m","e","n","t">>,
    <<"r","e","m","o","t","e"," ","p","a","r","t","i","c","i","p","a","t","i","o","n">>,
    <<"r","e","m","o","t","e"," ","s","t","u","d","y">>,
    <<"r","e","m","o","t","e"," ","V","R">>,
    <<"o","n","l","i","n","e"," ","s","t","u","d","y">>,
    <<"h","o","m","e","\\","w","*">>,
    <<"p","a","r","t","i","c","i","p","a","n","t","[","-","\\","s","]","?","o","w","n","e","d"," ","H","M","D">>,
    <<"p","a","r","t","i","c","i","p","a","n","t","[","-","\\","s","]","?","p","r","o","v","i","d","e","d"," ","H","M","D">>,
    <<"s","e","l","f","[","-","\\","s","]","?","a","d","m","i","n","i","s","t","e","r","e","d">>,
    <<"u","n","s","u","p","e","r","v","i","s","e","d">>,
    <<"p","a","r","t","i","c","i","p","a","n","t","[","-","\\","s","]","?","l","e","d">>,
    <<"s","e","l","f","[","-","\\","s","]","?","c","o","n","d","u","c","t","e","d">>,
    <<"w","e","b","[","-","\\","s","]","?","b","a","s","e","d">>,
    <<"c","r","o","w","d","s","o","u","r","c","\\","w","*">>,
    <<"p","r","o","l","i","f","i","c">>,
    <<"a","m","a","z","o","n"," ","m","e","c","h","a","n","i","c","a","l"," ","t","u","r","k">>,
    <<"M","T","u","r","k">>,
    <<"o","u","t","[","-","\\","s","]","?","o","f","[","-","\\","s","]","?","l","a","b">>,
    <<"o","u","t","s","i","d","e"," ","t","h","e"," ","l","a","b">>,
    <<"d","e","c","e","n","t","r","a","l","i","z","e","d">>>>

Group3Terms ==
  <<<<"u","s","e","r">>,
    <<"o","n","l","i","n","e">>,
    <<"s","t","u","d","y">>,
    <<"e","x","p","e","r","i","m","e","n","t">>,
    <<"b","e","h","a","v","i","o","r">>,
    <<"c","o","g","n","i","t","i","o","n">>,
    <<"e","v","a","l","u","a","t","i","o","n">>,
    <<"e","m","p","i","r","i","c","a","l">>,
    <<"p","e","r","c","e","p","t","i","o","n">>,
    <<"p","a","r","t","i","c","i","p","a","n","t">>,
    <<"c","o","n","t","r","o","l","l","e","d">>,
    <<"t","a","s","k"," ","p","e","r","f","o","r","m","a","n","c","e">>,
    <<"h","u","m","a","n","[","-","\\","s","]","?","s","u","b","j","e","c","t">>,
    <<"d","a","t","a"," ","c","o","l","l","e","c","t","i","o","n">>>>

\* the blocks get the ids uid() draws when the module loads: three distinct tokens
DEFAULT_CONFIG ==
  [caseInsensitive |-> TRUE,
   searchFields |-> [title |-> TRUE, abstract |-> TRUE, keywords |-> TRUE],
   blocks |-> <<[id |-> 1, name |-> "Group 1", terms |-> Group1Terms],
                [id |-> 2, name |-> "Group 2", terms |-> Group2Terms, isRegex |-> TRUE],
                [id |-> 3, name |-> "Group 3", terms |-> Group3Terms, isRegex |-> TRUE]>>,
   operators |-> <<"AND", "AND">>]

(***************************************************************************)
(* QueryStringParser                                                       *)
(***************************************************************************)
\* input.replace(/\s+/g, " ")
CollapseSpaces(str) ==
  Concat([i \in 1..Len(str) |->
            IF str[i] \notin SpaceChars THEN <<str[i]>>
            ELSE IF i > 1 /\ str[i - 1] \in SpaceChars THEN <<>>
            ELSE <<" ">>])

\* pushGroup / pushTerm
pushTrimmed(out, buf) == IF Len(Trim(buf)) > 0 THEN Append(out, Trim(buf)) ELSE out

\* a splitting loop that takes the keyword at any depth of parentheses
splitStepAnyDepth(str, kw, st) ==
  LET i == st.i
      ch == str[i + 1]
      n == Len(kw)
      prevOk == i >= 1 /\ str[i] \in {" ", ")"}
      nextOk == i + n >= Len(str) \/ str[i + n + 1] \in {" ", "("}
  IN CASE i >= Len(str) -> st
       [] i < Len(str) /\ ~st.inQuote /\ ch \in {"\"", "'"} ->
            [st EXCEPT !.i = i + 1, !.inQuote = TRUE, !.quoteChar = ch, !.buf = Append(st.buf, ch)]
       [] i < Len(str) /\ st.inQuote ->
            [st EXCEPT !.i = i + 1, !.buf = Append(st.buf, ch), !.inQuote = ch # st.quoteChar,
                       !.quoteChar = IF ch = st.quoteChar THEN "" ELSE st.quoteChar]
       [] OTHER ->
            IF MapUpper(Slice(str, i, i + n)) = kw /\ prevOk /\ nextOk
            THEN [st EXCEPT !.i = i + n, !.out = pushTrimmed(st.out, st.buf), !.buf = <<>>]
            ELSE [st EXCEPT !.i = i + 1, !.buf = Append(st.buf, ch)]

\* one iteration of the splitting loop of parseBooleanQuery on the keyword kw ("AND" for
\* the groups, "OR" for the terms of a group); st = [i, buf, depth, inQuote, quoteChar, out]
splitStep(str, kw, st) ==
  LET i == st.i
      ch == str[i + 1]
      n == Len(kw)
      prevOk == i >= 1 /\ str[i] \in {" ", ")"}
      nextOk == i + n >= Len(str) \/ str[i + n + 1] \in {" ", "("}
  IN CASE i >= Len(str) -> st
       [] i < Len(str) /\ ~st.inQuote /\ ch \in {"\"", "'"} ->
            [st EXCEPT !.i = i + 1, !.inQuote = TRUE, !.quoteChar = ch, !.buf = Append(st.buf, ch)]
       [] i < Len(str) /\ st.inQuote ->
            [st EXCEPT !.i = i + 1, !.buf = Append(st.buf, ch), !.inQuote = ch # st.quoteChar,
                       !.quoteChar = IF ch = st.quoteChar THEN "" ELSE st.quoteChar]
       [] i < Len(str) /\ ~st.inQuote /\ ch = "(" ->
            [st EXCEPT !.i = i + 1, !.depth = st.depth + 1, !.buf = Append(st.buf, ch)]
       [] i < Len(str) /\ ~st.inQuote /\ ch = ")" ->
            [st EXCEPT !.i = i + 1, !.depth = IF st.depth > 0 THEN st.depth - 1 ELSE 0, !.buf = Append(st.buf, ch)]
       [] OTHER ->
            IF st.depth = 0 /\ MapUpper(Slice(str, i, i + n)) = kw /\ prevOk /\ nextOk
            THEN [st EXCEPT !.i = i + n, !.out = pushTrimmed(st.out, st.buf), !.buf = <<>>]
            ELSE [st EXCEPT !.i = i + 1, !.buf = Append(st.buf, ch)]

\* k iterations of the loop
RECURSIVE splitIterate(_, _, _, _)
splitIterate(str, kw, k, st) ==
  CASE k = 0 -> st
    [] k = 1 -> splitStep(str, kw, st)
    [] OTHER -> CHOOSE r \in {splitIterate(str, kw, k \div 4, m3) :
                  m3 \in {splitIterate(str, kw, (k + 1) \div 4, m2) :
                    m2 \in {splitIterate(str, kw, (k + 2) \div 4, m1) :
                      m1 \in {splitIterate(str, kw, (k + 3) \div 4, st)}}}} : TRUE

\* the whole loop (each iteration consumes at least one character) and the final push
splitOn(str, kw) ==
  LET end == splitIterate(str, kw, Len(str),
                          [i |-> 0, buf |-> <<>>, depth |-> 0, inQuote |-> FALSE, quoteChar |-> "", out |-> <<>>])
  IN pushTrimmed(end.out, end.buf)

\* /^NOT\s+/i.test(g)
startsWithNot(g) ==
  Len(g) >= 4 /\ MapUpper(SubSeq(g, 1, 3)) = <<"N", "O", "T">> /\ g[4] \in SpaceChars

\* t.replace(/^["']|["']$/g, "")
stripQuotes(t) ==
  LET a == IF t # <<>> /\ Head(t) \in {"\"", "'"} THEN Tail(t) ELSE t
  IN IF a # <<>> /\ a[Len(a)] \in {"\"", "'"} THEN SubSeq(a, 1, Len(a) - 1) ELSE a

\* the body of groups.forEach for one group: its exclude flag and its clean terms
parseGroup(group) ==
  LET g0 == Trim(group)
      exclude == startsWithNot(g0)
      g1 == IF exclude THEN Trim(TrimStart(Slice(g0, 3, Len(g0)))) ELSE g0
      g2 == IF g1 # <<>> /\ Head(g1) = "(" /\ g1[Len(g1)] = ")" THEN Trim(Slice(g1, 1, Len(g1) - 1)) ELSE g1
      terms == splitOn(g2, <<"O", "R">>)
      stripped == [i \in 1..Len(terms) |-> Trim(stripQuotes(terms[i]))]
      nonEmpty(t) == t # <<>>
  IN [exclude |-> exclude, terms |-> SelectSeq(stripped, nonEmpty)]

\* a parser that numbers the groups as forEach numbers them, from 0
groupNameFromZero(gi) == "Group " \o ToString(gi)

\* the name of the block of the group of index gi of forEach: Group 1 for gi = 0
groupName(gi) == "Group " \o ToString(gi + 1)

\* parseBooleanQuery(input); null is [isNull |-> TRUE]; the new blocks take the ids
\* firstId, firstId + 1, ... (uid() draws a fresh token for each)
parseBooleanQuery(input, firstId) ==
  IF input = <<>> THEN [isNull |-> TRUE, blocks |-> <<>>, operators |-> <<>>]
  ELSE LET str == Trim(CollapseSpaces(input))
           groups == splitOn(str, <<"A", "N", "D">>)
       IN [isNull |-> FALSE,
           blocks |-> [gi \in 1..Len(groups) |->
                         [id |-> firstId + gi - 1, name |-> groupName(gi - 1),
                          terms |-> parseGroup(groups[gi]).terms, isRegex |-> FALSE,
                          exclude |-> parseGroup(groups[gi]).exclude]],
           operators |-> [gi \in 1..(IF Len(groups) > 0 THEN Len(groups) - 1 ELSE 0) |-> "AND"]]

(***************************************************************************)
(* A regular expression with capture groups, written as the sequence of    *)
(* its top-level parts: MatchParts returns the offsets between the parts   *)
(* on the first successful path of the backtracking matcher.               *)
(***************************************************************************)
RECURSIVE MatchParts(_, _, _, _, _)
RECURSIVE MatchPartsOver(_, _, _, _, _, _, _)

\* the first of the sequences that is not empty; <<>> when there is none
FirstNonEmpty(seqs) ==
  LET good == {e \in 1..Len(seqs) : seqs[e] # <<>>}
  IN IF good = {} THEN <<>> ELSE seqs[MinOf(good)]

\* offset p before a path that did not fail
PathFrom(p, rest) == IF rest = <<>> THEN <<>> ELSE <<p>> \o rest

MatchParts(parts, k, t, fl, p) ==
  IF k > Len(parts) THEN <<p>>
  ELSE MatchPartsOver(MatchAlts(parts[k].alts, 1, t, fl, p), 1, parts, k, t, fl, p)

\* the ends of part k from the e-th on, in backtracking order: the first one the rest matches from
MatchPartsOver(ends, e, parts, k, t, fl, p) ==
  PathFrom(p, FirstNonEmpty([i \in 1..(Len(ends) - e + 1) |-> MatchParts(parts, k + 1, t, fl, ends[e + i - 1])] \o <<>>))

\* exec from offset from: <<>> (null) or the offsets <<start, end of part 1, ..., end>>
PartsExecFrom(parts, t, fl, from) ==
  FirstNonEmpty([i \in 1..(Len(t) - from + 1) |-> MatchParts(parts, 1, t, fl, from + i - 1)] \o <<>>)

(***************************************************************************)
(* EntryParser                                                             *)
(***************************************************************************)
K_entry_type == <<"e", "n", "t", "r", "y", "_", "t", "y", "p", "e">>
K_citekey == <<"c", "i", "t", "e", "k", "e", "y">>
K___raw == <<"_", "_", "r", "a", "w">>
K_title == <<"t", "i", "t", "l", "e">>
K_abstract == <<"a", "b", "s", "t", "r", "a", "c", "t">>
K_abs == <<"a", "b", "s">>
K_summary == <<"s", "u", "m", "m", "a", "r", "y">>
K_keywords == <<"k", "e", "y", "w", "o", "r", "d", "s">>
K_keyword == <<"k", "e", "y", "w", "o", "r", "d">>
K_author == <<"a", "u", "t", "h", "o", "r">>
K_year == <<"y", "e", "a", "r">>
K_booktitle == <<"b", "o", "o", "k", "t", "i", "t", "l", "e">>
K_journal == <<"j", "o", "u", "r", "n", "a", "l">>
K_doi == <<"d", "o", "i">>
K_url == <<"u", "r", "l">>

\* headerRe = /^@(\w+)\s*\{\s*/ : "^@", "(\w+)", "\s*\{\s*"
headerRe ==
  <<RegExpParse(<<"^", "@">>, {}),
    RegExpParse(<<"\\", "w", "+">>, {}),
    RegExpParse(<<"\\", "s", "*", "\\", "{", "\\", "s", "*">>, {})>>

\* /^@\w+\s*\{\s*([^,]+)\s*,/s : "^@\w+\s*\{\s*", "([^,]+)", "\s*,"
citeKeyRe ==
  <<RegExpParse(<<"^", "@", "\\", "w", "+", "\\", "s", "*", "\\", "{", "\\", "s", "*">>, {"s"}),
    RegExpParse(<<"[", "^", ",", "]", "+">>, {"s"}),
    RegExpParse(<<"\\", "s", "*", ",">>, {"s"})>>

\* fieldRe = /(\w+)\s*=\s*("(?:\\.|[^"\\])*"|\{(?:\\.|[^{}]|\{[^{}]*\})*\})\s*,?/gis :
\* "(\w+)", "\s*=\s*", the value group, "\s*,?"
fieldRe ==
  <<RegExpParse(<<"\\", "w", "+">>, {"g", "i", "s"}),
    RegExpParse(<<"\\", "s", "*", "=", "\\", "s", "*">>, {"g", "i", "s"}),
    RegExpParse(<<"\"", "(", "?", ":", "\\", "\\", ".", "|", "[", "^", "\"", "\\", "\\", "]", ")", "*", "\"", "|",
                  "\\", "{", "(", "?", ":", "\\", "\\", ".", "|", "[", "^", "{", "}", "]", "|",
                  "\\", "{", "[", "^", "{", "}", "]", "*", "\\", "}", ")", "*", "\\", "}">>, {"g", "i", "s"}),
    RegExpParse(<<"\\", "s", "*", ",", "?">>, {"g", "i", "s"})>>

\* src.indexOf(ch, from)
IndexOf(src, ch, from) ==
  LET at == {k \in from..(Len(src) - 1) : src[k + 1] = ch}
  IN IF at = {} THEN -1 ELSE MinOf(at)

\* one iteration of the brace-depth scan; st = [j, depth, inQuote, done]
scanStep(src, st) ==
  LET j == st.j
      ch == src[j + 1]
  IN CASE st.done \/ j >= Len(src) -> st
       [] ~st.done /\ j < Len(src) /\ ch = "\"" /\ (j = 0 \/ src[j] # "\\") /\ st.depth = 1 ->
            [st EXCEPT !.inQuote = ~st.inQuote, !.j = j + 1]
       [] OTHER ->
            IF ~st.inQuote /\ ch = "{" THEN [st EXCEPT !.depth = st.depth + 1, !.j = j + 1]
            ELSE IF ~st.inQuote /\ ch = "}"
            THEN [st EXCEPT !.depth = st.depth - 1, !.j = j + 1, !.done = st.depth = 1]
            ELSE [st EXCEPT !.j = j + 1]

RECURSIVE scanIterate(_, _, _)
scanIterate(src, k, st) ==
  CASE k = 0 -> st
    [] k = 1 -> scanStep(src, st)
    [] OTHER -> CHOOSE r \in {scanIterate(src, k \div 4, m3) :
                  m3 \in {scanIterate(src, (k + 1) \div 4, m2) :
                    m2 \in {scanIterate(src, (k + 2) \div 4, m1) :
                      m1 \in {scanIterate(src, (k + 3) \div 4, st)}}}} : TRUE

\* the offset just past the chunk whose header ends at offset j
chunkEnd(src, j) ==
  scanIterate(src, Len(src) - j, [j |-> j, depth |-> 1, inQuote |-> FALSE, done |-> FALSE]).j

\* a value without its outer braces or quotes
unwrapValue(valRaw) ==
  IF (valRaw[1] = "{" /\ valRaw[Len(valRaw)] = "}") \/ (valRaw[1] = "\"" /\ valRaw[Len(valRaw)] = "\"")
  THEN Slice(valRaw, 1, Len(valRaw) - 1) ELSE valRaw

\* one fieldRe.exec(chunk) of the while loop; st = [lastIndex, fields, done]
fieldStep(chunk, st) ==
  IF st.done THEN st
  ELSE With(PartsExecFrom(fieldRe, chunk, {"g", "i", "s"}, st.lastIndex), LAMBDA fm :
         IF fm = <<>> THEN [st EXCEPT !.done = TRUE, !.lastIndex = 0]
         ELSE [st EXCEPT !.lastIndex = fm[5],
                         !.fields = ObjPut(st.fields, MapLower(Slice(chunk, fm[1], fm[2])),
                                           unwrapValue(Trim(Slice(chunk, fm[3], fm[4]))))])

RECURSIVE fieldIterate(_, _, _)
fieldIterate(chunk, k, st) ==
  CASE k = 0 -> st
    [] k = 1 -> fieldStep(chunk, st)
    [] OTHER -> CHOOSE r \in {fieldIterate(chunk, k \div 4, m3) :
                  m3 \in {fieldIterate(chunk, (k + 1) \div 4, m2) :
                    m2 \in {fieldIterate(chunk, (k + 2) \div 4, m1) :
                      m1 \in {fieldIterate(chunk, (k + 3) \div 4, st)}}}} : TRUE

\* the while loop over fieldRe.exec(chunk): the fields object; every match takes up an "=" of the chunk
fieldsFrom(chunk, lastIndex, fields) ==
  fieldIterate(chunk, Cardinality({x \in 1..Len(chunk) : chunk[x] = "="}) + 1,
               [lastIndex |-> lastIndex, fields |-> fields, done |-> FALSE]).fields

\* { ...fields } appended to obj
RECURSIVE SpreadInto(_, _, _)
SpreadInto(obj, fields, k) ==
  IF k > Len(fields) THEN obj
  ELSE SpreadInto(ObjPut(obj, fields[k].key, fields[k].val), fields, k + 1)

\* the entry object of a chunk: entry_type, citekey, the fields, __raw
entryOf(type, citekey, chunk) ==
  ObjPut(SpreadInto(<<[key |-> K_entry_type, val |-> type], [key |-> K_citekey, val |-> citekey]>>,
                    fieldsFrom(chunk, 0, <<>>), 1),
         K___raw, chunk)

\* one iteration of the outer while loop; st = [i, entries, done]
entryStep(src, st) ==
  IF st.done \/ st.i >= Len(src) THEN [st EXCEPT !.done = TRUE]
  ELSE With(IndexOf(src, "@", st.i), LAMBDA at :
    IF at = -1 THEN [st EXCEPT !.done = TRUE]
    ELSE With(Slice(src, at, Len(src)), LAMBDA head :
      With(MatchParts(headerRe, 1, head, {}, 0), LAMBDA m :
        IF m = <<>> THEN [st EXCEPT !.i = at + 1]
        ELSE With(chunkEnd(src, at + m[4]), LAMBDA j :
          With(Trim(Slice(src, at, j)), LAMBDA chunk :
            With(MatchParts(citeKeyRe, 1, chunk, {"s"}, 0), LAMBDA ck :
              IF ck = <<>> THEN [st EXCEPT !.i = j]
              ELSE [st EXCEPT !.i = j,
                              !.entries = Append(st.entries, entryOf(Slice(head, m[2], m[3]), Slice(chunk, ck[2], ck[3]), chunk))]))))))

RECURSIVE entryIterate(_, _, _)
entryIterate(src, k, st) ==
  CASE k = 0 -> st
    [] k = 1 -> entryStep(src, st)
    [] OTHER -> CHOOSE r \in {entryIterate(src, k \div 4, m3) :
                  m3 \in {entryIterate(src, (k + 1) \div 4, m2) :
                    m2 \in {entryIterate(src, (k + 2) \div 4, m1) :
                      m1 \in {entryIterate(src, (k + 3) \div 4, st)}}}} : TRUE

\* the outer loop from offset i on: the entries found; every iteration takes up an "@" of the text
entriesFrom(src, i, entries) ==
  entryIterate(src, Cardinality({x \in 1..Len(src) : src[x] = "@"}) + 1,
               [i |-> i, entries |-> entries, done |-> FALSE]).entries

\* parseBibtexEntries with the test src.length > 0 in place of src.trim().length > 0
parseBibtexEntriesNoTrim(text) ==
  With(entriesFrom(text, 0, <<>>), LAMBDA entries :
    [threw |-> entries = <<>> /\ Len(text) > 0, entries |-> entries])

\* parseBibtexEntries(text): threw is the Error "No BibTeX entries found..."
parseBibtexEntries(text) ==
  With(entriesFrom(text, 0, <<>>), LAMBDA entries :
    [threw |-> entries = <<>> /\ Len(Trim(text)) > 0, entries |-> entries])

(***************************************************************************)
(* run: one pass over the parsed entries                                   *)
(***************************************************************************)
\* e.key || ""
Prop(e, key) == IF ObjHas(e, key) THEN ObjGet(e, key) ELSE <<>>

\* a || b on strings
OrElse(a, b) == IF a # <<>> THEN a ELSE b

\* str.replace(/[{}]/g, "")
RemoveBraces(str) == Concat([i \in 1..Len(str) |-> IF str[i] \in {"{", "}"} THEN <<>> ELSE <<str[i]>>])

DoiPrefix == <<"h", "t", "t", "p", "s", ":", "/", "/", "d", "o", "i", ".", "o", "r", "g", "/">>

\* names.join(sep) on block names
RECURSIVE JoinNames(_, _)
JoinNames(names, sep) ==
  IF names = <<>> THEN ""
  ELSE IF Len(names) = 1 THEN names[1]
  ELSE names[1] \o sep \o JoinNames(Tail(names), sep)

\* `  ${k} = {${v}}` for every field but entry_type, citekey and the __ keys, joined by ",\n"
buildBibEntry(entry) ==
  LET keep(kv) == kv.key \notin {K_entry_type, K_citekey, K___raw} /\ ~StartsWithAt(kv.key, 0, <<"_", "_">>)
      fields == SelectSeq(entry, keep)
      lines == [i \in 1..Len(fields) |-> <<" ", " ">> \o fields[i].key \o <<" ", "=", " ", "{">> \o fields[i].val \o <<"}">>]
  IN <<"@">> \o Prop(entry, K_entry_type) \o <<"{">> \o Prop(entry, K_citekey) \o <<",", "\n">>
     \o JoinSeqs(lines, <<",", "\n">>) \o <<"\n", "}">>

\* the parts of one detail piece: the fields with hits, in the order Title, Abstract, Keywords
detailPiecesOf(detailed) ==
  LET piece(kv) == [block |-> kv.key,
                    parts |-> SelectSeq([i \in 1..3 |-> [field |-> FieldNames[i], terms |-> kv.val[FieldNames[i]]]],
                                        LAMBDA q : q.terms # <<>>)]
      all == [i \in 1..Len(detailed) |-> piece(detailed[i])]
  IN SelectSeq(all, LAMBDA q : q.parts # <<>>)

\* cfg.blocks.filter((b) => !b.exclude).map((b, j) => b.name || `Block ${j + 1}`)
allPosBlocksOf(c) ==
  LET pos == SelectSeq(c.blocks, LAMBDA b : ~Flag(b, "exclude"))
  IN [j \in 1..Len(pos) |-> blockName(pos[j], j - 1)]

\* title, abstract and keywords of entry e as run reads them
recordFields(e) ==
  [title |-> Prop(e, K_title),
   abstract |-> OrElse(Prop(e, K_abstract), OrElse(Prop(e, K_abs), Prop(e, K_summary))),
   keywords |-> OrElse(Prop(e, K_keywords), Prop(e, K_keyword))]

\* a run that takes every record as eligible
hasAnyFieldAlways(c, f) == TRUE

\* hasAny: some selected field of the record is not empty
hasAnyField(c, f) ==
  \/ c.searchFields.title /\ f.title # <<>>
  \/ c.searchFields.abstract /\ f.abstract # <<>>
  \/ c.searchFields.keywords /\ f.keywords # <<>>

\* e.url || (doi ? `https://doi.org/${doi}` : "")
resolvedUrl(e, doi) == OrElse(Prop(e, K_url), IF doi # <<>> THEN DoiPrefix \o doi ELSE <<>>)

\* baseEntry with TitleRaw, AbstractRaw and KeywordsRaw
rowBase(e, f) ==
  [CiteKey |-> Prop(e, K_citekey),
   Title |-> Trim(RemoveBraces(CollapseSpaces(f.title))),
   Authors |-> Trim(CollapseSpaces(Prop(e, K_author))),
   Year |-> Trim(Prop(e, K_year)),
   Venue |-> Trim(CollapseSpaces(OrElse(Prop(e, K_booktitle), Prop(e, K_journal)))),
   URL |-> Trim(resolvedUrl(e, Trim(Prop(e, K_doi)))),
   TitleRaw |-> f.title, AbstractRaw |-> f.abstract, KeywordsRaw |-> f.keywords]

\* allPosBlocks.filter((n) => !hitBlocks.includes(n))
missingBlocksOf(c, hitBlocks) == SelectSeq(allPosBlocksOf(c), LAMBDA n : n \notin SeqRange(hitBlocks))

\* a run without the partial branch
bucketOfTwoWay(hasAny, res) ==
  IF res.ok /\ hasAny THEN "matched"
  ELSE IF hasAny THEN "unmatched"
  ELSE "none"

\* the branch of run for a record with fields f, hasAny, and evaluator result res
bucketOf(hasAny, res) ==
  IF res.ok /\ hasAny THEN "matched"
  ELSE IF hasAny /\ Len(ObjKeys(res.detailed)) > 0 THEN "partial"
  ELSE IF hasAny THEN "unmatched"
  ELSE "none"

\* the row pushed for a record in the given bucket
rowOf(c, base, res, bucket) ==
  CASE bucket = "matched" ->
         Spread(base, [MatchedBlocks |-> JoinNames(res.matchedBlocks, "; "),
                       MatchedTermsDetail |-> detailPiecesOf(res.detailed),
                       MatchedTermsMap |-> res.detailed])
    [] bucket = "partial" ->
         Spread(base, [MatchedTermsMap |-> res.detailed,
                       MatchedTermsDetail |-> detailPiecesOf(res.detailed),
                       PartialBlocks |-> JoinNames(ObjKeys(res.detailed), "; "),
                       MissingBlocks |-> JoinNames(missingBlocksOf(c, ObjKeys(res.detailed)), "; ")])
    [] bucket = "unmatched" -> Spread(base, [MatchedTermsMap |-> res.detailed])
    [] OTHER -> base

\* the body of the loop of run for entry e: its bucket and its row
classifyEntry(c, e) ==
  With(recordFields(e), LAMBDA f :
    With(matchesByFields(c, f, c.searchFields), LAMBDA res :
      With(bucketOf(hasAnyField(c, f), res), LAMBDA bucket :
        [bucket |-> bucket, hasAny |-> hasAnyField(c, f), row |-> rowOf(c, rowBase(e, f), res, bucket)])))

\* the rows of one bucket, in entry order
rowsOf(classified, bucket) ==
  With(SelectSeq(classified, LAMBDA q : q.bucket = bucket), LAMBDA sel : [i \in 1..Len(sel) |-> sel[i].row])

\* matchedBibEntries.join("\n\n")
matchedBibOf(entries, classified) ==
  With(SelectSeq([k \in 1..Len(entries) |-> [e |-> entries[k], bucket |-> classified[k].bucket]],
                 LAMBDA q : q.bucket = "matched"), LAMBDA sel :
    JoinSeqs([k \in 1..Len(sel) |-> buildBibEntry(sel[k].e)], <<"\n", "\n">>))

\* a report whose eligible counter is raised for every entry
reportOfEveryEntry(classified) ==
  [total |-> Len(classified),
   eligible |-> Len(classified),
   matched |-> Len(rowsOf(classified, "matched")),
   partial |-> Len(rowsOf(classified, "partial")),
   unmatched |-> Len(rowsOf(classified, "unmatched"))]

\* the report of a run
reportOf(classified) ==
  [total |-> Len(classified),
   eligible |-> Cardinality({k \in 1..Len(classified) : classified[k].hasAny}),
   matched |-> Len(rowsOf(classified, "matched")),
   partial |-> Len(rowsOf(classified, "partial")),
   unmatched |-> Len(rowsOf(classified, "unmatched"))]

(***************************************************************************)
(* computeTermStats.  An event is one pass of the innermost loop: a row,   *)
(* a block name of its MatchedTermsMap, a field and a term of that field.  *)
(* The counters are sums over the events; the key order of each map is     *)
(* the order in which the loop first meets the keys.                       *)
(***************************************************************************)
\* the elements of seq without repetitions, each at its first place
FirstOccurrences(seq) ==
  With(SelectSeq([i \in 1..Len(seq) |-> [i |-> i, v |-> seq[i]]], LAMBDA q : \A j \in 1..(q.i - 1) : seq[j] # q.v),
       LAMBDA firsts : [k \in 1..Len(firsts) |-> firsts[k].v])

eventsOfRow(r, mtm) ==
  Concat([b \in 1..Len(mtm) |->
            Concat([fi \in 1..3 |->
                      [t \in 1..Len(mtm[b].val[FieldNames[fi]]) |->
                         [row |-> r, block |-> mtm[b].key, field |-> FieldNames[fi],
                          term |-> mtm[b].val[FieldNames[fi]][t]]]])])

eventsOf(rows) == Concat([r \in 1..Len(rows) |-> eventsOfRow(r, rows[r].MatchedTermsMap)])

\* the number of rows with an event that satisfies ok
docCountOf(ev, ok(_)) == Cardinality({ev[i].row : i \in {j \in 1..Len(ev) : ok(ev[j])}})

\* the number of events that satisfy ok
countOf(ev, ok(_)) == Cardinality({j \in 1..Len(ev) : ok(ev[j])})

\* an aggregator without the loop over cfg.blocks that adds the configured terms
cfgTermsOfNone(c, name) == <<>>

\* the trimmed non-empty terms of the blocks of c that go by the given name
cfgTermsOf(c, name) ==
  Concat([i \in 1..Len(c.blocks) |->
            IF blockName(c.blocks[i], i - 1) # name THEN <<>>
            ELSE With(SelectSeq(c.blocks[i].terms, NonEmptyTerm), LAMBDA ts : [k \in 1..Len(ts) |-> Trim(ts[k])])])

\* perBlock[name]: term -> {docCount, fields}
perBlockEntry(ev, c, name) ==
  With(FirstOccurrences(With(SelectSeq(ev, LAMBDA e : e.block = name), LAMBDA mine : [k \in 1..Len(mine) |-> mine[k].term])
                        \o cfgTermsOf(c, name)), LAMBDA terms :
    [k \in 1..Len(terms) |->
       [key |-> terms[k],
        val |-> [docCount |-> docCountOf(ev, LAMBDA e : e.block = name /\ e.term = terms[k]),
                 fields |-> [f \in SeqRange(FieldNames) |->
                               countOf(ev, LAMBDA e : e.block = name /\ e.term = terms[k] /\ e.field = f)]]]])

perBlockOf(ev, c) ==
  With(FirstOccurrences([i \in 1..Len(ev) |-> ev[i].block] \o [i \in 1..Len(c.blocks) |-> blockName(c.blocks[i], i - 1)]),
       LAMBDA names : [k \in 1..Len(names) |-> [key |-> names[k], val |-> perBlockEntry(ev, c, names[k])]])

\* [...].sort((a, b) => b.docCount - a.docCount)
byDocCount(list) == SortStable(list, LAMBDA a, b : b.docCount - a.docCount)

\* an aggregator without seenOverall: a term counts once for every field and block it hit in
overallTopOfEveryHit(ev) ==
  With(FirstOccurrences([i \in 1..Len(ev) |-> ev[i].term]), LAMBDA terms :
    byDocCount([k \in 1..Len(terms) |-> [term |-> terms[k], docCount |-> countOf(ev, LAMBDA e : e.term = terms[k])]]))

overallTopOf(ev) ==
  With(FirstOccurrences([i \in 1..Len(ev) |-> ev[i].term]), LAMBDA terms :
    byDocCount([k \in 1..Len(terms) |-> [term |-> terms[k], docCount |-> docCountOf(ev, LAMBDA e : e.term = terms[k])]]))

topByBlockOf(perBlock) ==
  [k \in 1..Len(perBlock) |->
     [key |-> perBlock[k].key,
      val |-> byDocCount([t \in 1..Len(perBlock[k].val) |->
                            [term |-> perBlock[k].val[t].key, docCount |-> perBlock[k].val[t].val.docCount,
                             fields |-> perBlock[k].val[t].val.fields]])]]

overallFieldCountsOf(ev) ==
  [f \in SeqRange(FieldNames) |->
     With(FirstOccurrences(With(SelectSeq(ev, LAMBDA e : e.field = f), LAMBDA mine : [k \in 1..Len(mine) |-> mine[k].term])),
          LAMBDA terms : [k \in 1..Len(terms) |->
                            [key |-> terms[k], val |-> countOf(ev, LAMBDA e : e.field = f /\ e.term = terms[k])]])]

computeTermStats(rows, c) ==
  With(eventsOf(rows), LAMBDA ev :
    With(perBlockOf(ev, c), LAMBDA perBlock :
      [totalMatchedStudies |-> Len(rows),
       overallTop |-> overallTopOf(ev),
       topByBlock |-> topByBlockOf(perBlock),
       perBlock |-> perBlock,
       overallFieldCounts |-> overallFieldCountsOf(ev)]))

\* the body of the try block of run after the parser has returned the entries
runOver(c, entries) ==
  With([k \in 1..Len(entries) |-> classifyEntry(c, entries[k])] \o <<>>, LAMBDA classified :
    [threw |-> FALSE,
     output |-> [isNull |-> FALSE,
                 matched |-> rowsOf(classified, "matched"),
                 partial |-> rowsOf(classified, "partial"),
                 unmatched |-> rowsOf(classified, "unmatched"),
                 report |-> reportOf(classified),
                 termStats |-> computeTermStats(rowsOf(classified, "matched"), c)],
     matchedBib |-> matchedBibOf(entries, classified)])

\* run going on with no entries where the parser throws
runResultNoAbort(c, b) == runOver(c, parseBibtexEntries(b).entries)

\* the try block of run on configuration c and text b
runResult(c, b) ==
  With(parseBibtexEntries(b), LAMBDA parsed :
    IF parsed.threw THEN [threw |-> TRUE] ELSE runOver(c, parsed.entries))

\* setRunOutput(null)
NullOutput == [isNull |-> TRUE]

(***************************************************************************)
(* SpanHighlighter                                                         *)
(***************************************************************************)
\* the source of the pattern of compileRegexForBlockField
highlightSource(hits, isRegex) ==
  With(SortStable(hits, LAMBDA a, b : Len(b) - Len(a)), LAMBDA sorted :
    <<"(", "?", ":">> \o JoinSeqs([i \in 1..Len(sorted) |-> toSmartWordPattern(sorted[i], isRegex)], <<"|">>) \o <<")">>)

\* compileRegexForBlockField: isNull for null, threw for the SyntaxError of new RegExp
compileRegexForBlockField(hasBlockCfg, isRegex, hits, caseInsensitive) ==
  IF ~hasBlockCfg \/ hits = <<>> THEN [isNull |-> TRUE, threw |-> FALSE]
  ELSE With(RegExpParse(highlightSource(hits, isRegex), IF caseInsensitive THEN {"g", "i"} ELSE {"g"}), LAMBDA re :
         [isNull |-> FALSE, threw |-> ~re.ok, re |-> re])

\* an exec loop that leaves the scan position where a match of length 0 ended
execStepNoAdvance(text, block, rx, st) ==
  IF st.done THEN st
  ELSE With(IF st.lastIndex > Len(text) THEN NoMatch ELSE RegExpMatchFrom(rx, text, st.lastIndex), LAMBDA m :
         IF ~m.found THEN [st EXCEPT !.done = TRUE, !.lastIndex = 0]
         ELSE [st EXCEPT !.spans = Append(st.spans, [start |-> m.index, end |-> m.end, block |-> block,
                                                     text |-> Slice(text, m.index, m.end)]),
                         !.lastIndex = m.end])

\* one rx.exec(text) of the while loop of collectSpans; st = [lastIndex, spans, done]
execStep(text, block, rx, st) ==
  IF st.done THEN st
  ELSE With(IF st.lastIndex > Len(text) THEN NoMatch ELSE RegExpMatchFrom(rx, text, st.lastIndex), LAMBDA m :
         IF ~m.found THEN [st EXCEPT !.done = TRUE, !.lastIndex = 0]
         ELSE [st EXCEPT !.spans = Append(st.spans, [start |-> m.index, end |-> m.end, block |-> block,
                                                     text |-> Slice(text, m.index, m.end)]),
                         !.lastIndex = IF m.end = m.index THEN m.end + 1 ELSE m.end])

RECURSIVE execIterate(_, _, _, _, _)
execIterate(text, block, rx, k, st) ==
  CASE k = 0 -> st
    [] k = 1 -> execStep(text, block, rx, st)
    [] OTHER -> CHOOSE r \in {execIterate(text, block, rx, k \div 4, m3) :
                  m3 \in {execIterate(text, block, rx, (k + 1) \div 4, m2) :
                    m2 \in {execIterate(text, block, rx, (k + 2) \div 4, m1) :
                      m1 \in {execIterate(text, block, rx, (k + 3) \div 4, st)}}}} : TRUE

\* the spans of one pattern: every exec consumes a character or ends the loop
spansOfPattern(text, item) ==
  execIterate(text, item.block, item.re, Len(text) + 2, [lastIndex |-> 0, spans |-> <<>>, done |-> FALSE]).spans

\* a comparator that puts the shorter of two spans with the same start first
spanCompareShorterFirst(a, b) ==
  IF a.start - b.start # 0 THEN a.start - b.start ELSE (a.end - a.start) - (b.end - b.start)

\* spans.sort((a, b) => a.start - b.start || b.end - b.start - (a.end - a.start))
spanCompare(a, b) ==
  IF a.start - b.start # 0 THEN a.start - b.start ELSE (b.end - b.start) - (a.end - a.start)

\* a picking loop that keeps every span
pickEvery(spans, k, st) == spans

\* the picking loop; st = [picked, lastEnd]
RECURSIVE pickFrom(_, _, _)
pickFrom(spans, k, st) ==
  IF k > Len(spans) THEN st.picked
  ELSE IF spans[k].start >= st.lastEnd
  THEN pickFrom(spans, k + 1, [picked |-> Append(st.picked, spans[k]), lastEnd |-> spans[k].end])
  ELSE pickFrom(spans, k + 1, st)

\* the sort and the picking loop on the spans pushed
pickSpans(spans) == pickFrom(SortStable(spans, spanCompare), 1, [picked |-> <<>>, lastEnd |-> -1])

collectSpans(text, arr) == pickSpans(Concat([i \in 1..Len(arr) |-> spansOfPattern(text, arr[i])]))

\* cfg.blocks.find((b) => (b.name || "") === blockName): <<>> for undefined
findBlock(c, name) ==
  With({i \in 1..Len(c.blocks) : c.blocks[i].name = name}, LAMBDA found :
    IF found = {} THEN <<>> ELSE <<c.blocks[MinOf(found)]>>)

\* the loop of highlightByBlocks over the entries of matchedTermsMap: what
\* compileRegexForBlockField returns for each block name
compiledPerBlock(matchedTermsMap, c, field) ==
  [i \in 1..Len(matchedTermsMap) |->
     With(findBlock(c, matchedTermsMap[i].key), LAMBDA blockCfg :
       [block |-> matchedTermsMap[i].key,
        cr |-> compileRegexForBlockField(blockCfg # <<>>, blockCfg # <<>> /\ Flag(blockCfg[1], "isRegex"),
                                         matchedTermsMap[i].val[field], c.caseInsensitive)])]

\* the part of highlightByBlocks that leads to the spans it paints: threw when a pattern
\* does not compile; c is the configuration of the render
highlightSpans(text, matchedTermsMap, c, field) ==
  IF text = <<>> THEN [threw |-> FALSE, spans |-> <<>>]
  ELSE With(SelectSeq(compiledPerBlock(matchedTermsMap, c, field), LAMBDA q : ~q.cr.isNull), LAMBDA usable :
         IF \E i \in 1..Len(usable) : usable[i].cr.threw THEN [threw |-> TRUE, spans |-> <<>>]
         ELSE IF usable = <<>> THEN [threw |-> FALSE, spans |-> <<>>]
         ELSE [threw |-> FALSE,
               spans |-> collectSpans(text, [i \in 1..Len(usable) |-> [block |-> usable[i].block, re |-> usable[i].cr.re]])])

(***************************************************************************)
(* Configuration editing                                                   *)
(***************************************************************************)
\* arr.splice(index, 0, x)
SpliceIn(arr, index, x) == Slice(arr, 0, index) \o <<x>> \o Slice(arr, index, Len(arr))

\* arr.splice(index, 1)
SpliceOut(arr, index) == Slice(arr, 0, index) \o Slice(arr, index + 1, Len(arr))

addBlockAt(c, index, id) ==
  LET nb == [id |-> id, name |-> "Block " \o ToString(Len(c.blocks) + 1), terms |-> << <<>> >>, isRegex |-> FALSE]
  IN [c EXCEPT !.blocks = SpliceIn(c.blocks, index, nb),
               !.operators = IF index = 0 THEN <<"AND">> \o c.operators ELSE SpliceIn(c.operators, index, "AND")]

removeBlock(c, id, idx) ==
  [c EXCEPT !.blocks = SelectSeq(c.blocks, LAMBDA b : b.id # id),
            !.operators = IF Len(c.operators) > 0
                          THEN IF idx = 0 THEN Tail(c.operators) ELSE SpliceOut(c.operators, idx - 1)
                          ELSE c.operators]

updateBlock(c, index, patch) == [c EXCEPT !.blocks[index + 1] = Spread(c.blocks[index + 1], patch)]

\* operators[index] = op: an index past the end leaves holes, which read undefined
updateOperator(c, index, op) ==
  [c EXCEPT !.operators = [i \in 1..MaxOf({Len(c.operators), index + 1}) |->
                             IF i = index + 1 THEN op
                             ELSE IF i <= Len(c.operators) THEN c.operators[i] ELSE "undefined"]]

\* applyPastedQuery on configuration c and query string q
applyPastedQuery(c, q, firstId) ==
  With(parseBooleanQuery(q, firstId), LAMBDA parsed :
    IF parsed.isNull THEN c ELSE [c EXCEPT !.blocks = parsed.blocks, !.operators = parsed.operators])

(***************************************************************************)
(* JSON: the values of JavaScript that a configuration is made of, tagged  *)
(* with their type, JSON.stringify(value, null, 2) and JSON.parse.  A      *)
(* string value is a sequence of characters; a name, an operator and a     *)
(* property key are held as one element of it.  Numbers do not occur.      *)
(***************************************************************************)
JStr(s) == [t |-> "string", v |-> s]
JBool(b) == [t |-> "boolean", v |-> b]
JArr(items) == [t |-> "array", v |-> items]
JObj(pairs) == [t |-> "object", v |-> pairs]
JNull == [t |-> "null"]
JUndefined == [t |-> "undefined"]

\* the escape sequence of a character inside a JSON string
JsonEscape(ch) ==
  CASE ch = "\"" -> <<"\\", "\"">>
    [] ch = "\\" -> <<"\\", "\\">>
    [] ch = "\n" -> <<"\\", "n">>
    [] ch = "\r" -> <<"\\", "r">>
    [] ch = "\t" -> <<"\\", "t">>
    [] OTHER -> <<ch>>

\* a serializer that writes the characters of a string as they are
JsonQuoteRaw(s) == <<"\"">> \o s \o <<"\"">>

JsonQuote(s) == <<"\"">> \o Concat([i \in 1..Len(s) |-> JsonEscape(s[i])]) \o <<"\"">>

\* a line break and the indentation of nesting depth d
JsonBreak(d) == <<"\n">> \o [i \in 1..(2 * d) |-> " "]

\* JSON.stringify(v, null, 2) at nesting depth d: a property whose value is undefined
\* is left out of an object, and an undefined element of an array is written null
RECURSIVE JsonStringify(_, _)
JsonStringify(v, d) ==
  CASE v.t = "string" -> JsonQuote(v.v)
    [] v.t = "boolean" -> IF v.v THEN <<"t", "r", "u", "e">> ELSE <<"f", "a", "l", "s", "e">>
    [] v.t \in {"null", "undefined"} -> <<"n", "u", "l", "l">>
    [] v.t = "array" ->
         IF v.v = <<>> THEN <<"[", "]">>
         ELSE <<"[">>
              \o Concat([i \in 1..Len(v.v) |->
                           (IF i = 1 THEN <<>> ELSE <<",">>) \o JsonBreak(d + 1) \o JsonStringify(v.v[i], d + 1)])
              \o JsonBreak(d) \o <<"]">>
    [] v.t = "object" ->
         With(SelectSeq(v.v, LAMBDA pr : pr.val.t # "undefined"), LAMBDA props :
           IF props = <<>> THEN <<"{", "}">>
           ELSE <<"{">>
                \o Concat([i \in 1..Len(props) |->
                             (IF i = 1 THEN <<>> ELSE <<",">>) \o JsonBreak(d + 1)
                             \o JsonQuote(<<props[i].key>>) \o <<":", " ">> \o JsonStringify(props[i].val, d + 1)])
                \o JsonBreak(d) \o <<"}">>)

\* the 1-based index of the first character from index p on that is not white space; Len + 1 when there is none
RECURSIVE JsonSkip(_, _)
JsonSkip(text, p) == IF p > Len(text) \/ text[p] \notin SpaceChars THEN p ELSE JsonSkip(text, p + 1)

\* the number of backslashes that stand right before index i, none of them before index lo
RECURSIVE JsonSlashesBefore(_, _, _)
JsonSlashesBefore(text, lo, i) ==
  IF i - 1 < lo \/ text[i - 1] # "\\" THEN 0 ELSE 1 + JsonSlashesBefore(text, lo, i - 1)

\* the index of the quote that closes the string whose first character is at index p; 0 when there is none
RECURSIVE JsonStringEndFrom(_, _, _)
JsonStringEndFrom(text, p, i) ==
  CASE i > Len(text) -> 0
    [] i <= Len(text) /\ text[i] = "\"" /\ JsonSlashesBefore(text, p, i) % 2 = 0 -> i
    [] OTHER -> JsonStringEndFrom(text, p, i + 1)

JsonStringEnd(text, p) == JsonStringEndFrom(text, p, p)

\* the character an escape sequence stands for
JsonUnescape(ch) ==
  CASE ch = "n" -> "\n"
    [] ch = "r" -> "\r"
    [] ch = "t" -> "\t"
    [] OTHER -> ch

\* the value of the characters between the quotes of a JSON string: a backslash that
\* is not itself escaped opens an escape sequence
JsonStringValue(body) ==
  LET kept == SelectSeq([i \in 1..Len(body) |-> i] \o <<>>,
                        LAMBDA i : ~(body[i] = "\\" /\ JsonSlashesBefore(body, 1, i) % 2 = 0))
  IN [k \in 1..Len(kept) |-> IF JsonSlashesBefore(body, 1, kept[k]) % 2 = 1
                             THEN JsonUnescape(body[kept[k]]) ELSE body[kept[k]]] \o <<>>

JsonError == [ok |-> FALSE]

JsonParsed(v, p) == [ok |-> TRUE, v |-> v, p |-> p]

\* the value that starts at index p, and the index after it
RECURSIVE JsonValue(_, _)
RECURSIVE JsonElements(_, _, _)
RECURSIVE JsonMembers(_, _, _)
JsonValue(text, p0) ==
  With(JsonSkip(text, p0), LAMBDA p :
    CASE p > Len(text) -> JsonError
      [] p <= Len(text) /\ text[p] = "\"" ->
           With(JsonStringEnd(text, p + 1), LAMBDA e :
             IF e = 0 THEN JsonError ELSE JsonParsed(JStr(JsonStringValue(SubSeq(text, p + 1, e - 1))), e + 1))
      [] p <= Len(text) /\ text[p] = "t" ->
           IF StartsWithAt(text, p - 1, <<"t", "r", "u", "e">>) THEN JsonParsed(JBool(TRUE), p + 4) ELSE JsonError
      [] p <= Len(text) /\ text[p] = "f" ->
           IF StartsWithAt(text, p - 1, <<"f", "a", "l", "s", "e">>) THEN JsonParsed(JBool(FALSE), p + 5) ELSE JsonError
      [] p <= Len(text) /\ text[p] = "n" ->
           IF StartsWithAt(text, p - 1, <<"n", "u", "l", "l">>) THEN JsonParsed(JNull, p + 4) ELSE JsonError
      [] p <= Len(text) /\ text[p] = "[" ->
           With(JsonSkip(text, p + 1), LAMBDA q :
             IF q <= Len(text) /\ text[q] = "]" THEN JsonParsed(JArr(<<>>), q + 1)
             ELSE JsonElements(text, q, <<>>))
      [] p <= Len(text) /\ text[p] = "{" ->
           With(JsonSkip(text, p + 1), LAMBDA q :
             IF q <= Len(text) /\ text[q] = "}" THEN JsonParsed(JObj(<<>>), q + 1)
             ELSE JsonMembers(text, q, <<>>))
      [] OTHER -> JsonError)

\* the elements of an array from index p on, after those of acc
JsonElements(text, p, acc) ==
  With(JsonValue(text, p), LAMBDA el :
    IF ~el.ok THEN JsonError
    ELSE With(JsonSkip(text, el.p), LAMBDA q :
           CASE q <= Len(text) /\ text[q] = "," -> JsonElements(text, q + 1, Append(acc, el.v))
             [] q <= Len(text) /\ text[q] = "]" -> JsonParsed(JArr(Append(acc, el.v)), q + 1)
             [] OTHER -> JsonError))

\* the members of an object from index p on, after those of acc; a key is one element of its string
JsonMembers(text, p, acc) ==
  With(JsonValue(text, p), LAMBDA k :
    IF ~k.ok \/ k.v.t # "string" \/ Len(k.v.v) # 1 THEN JsonError
    ELSE With(JsonSkip(text, k.p), LAMBDA c :
           IF c > Len(text) \/ text[c] # ":" THEN JsonError
           ELSE With(JsonValue(text, c + 1), LAMBDA el :
                  IF ~el.ok THEN JsonError
                  ELSE With(JsonSkip(text, el.p), LAMBDA q :
                         CASE q <= Len(text) /\ text[q] = "," -> JsonMembers(text, q + 1, ObjPut(acc, k.v.v[1], el.v))
                           [] q <= Len(text) /\ text[q] = "}" -> JsonParsed(JObj(ObjPut(acc, k.v.v[1], el.v)), q + 1)
                           [] OTHER -> JsonError))))

\* JSON.parse(text): the value, or a SyntaxError thrown
JsonParse(text) ==
  With(JsonValue(text, 1), LAMBDA r :
    IF r.ok /\ JsonSkip(text, r.p) > Len(text) THEN [threw |-> FALSE, value |-> r.v] ELSE [threw |-> TRUE])

\* obj[key] of a parsed value; undefined when the value has no such property
JsProp(v, key) == IF v.t = "object" /\ ObjHas(v.v, key) THEN ObjGet(v.v, key) ELSE JUndefined

\* the value counts as true in a condition
JsTruthy(v) ==
  CASE v.t = "string" -> v.v # <<>>
    [] v.t = "boolean" -> v.v
    [] v.t \in {"array", "object"} -> TRUE
    [] OTHER -> FALSE

\* the name, operator or token a string value holds; the type of any other value
JsAtom(v) == IF v.t = "string" /\ Len(v.v) = 1 THEN v.v[1] ELSE v.t

\* the properties of the record that are present, as a JavaScript object with the keys in the order of keys
JsObjectOf(rec, keys, Val(_)) ==
  With(SelectSeq(keys, LAMBDA k : k \in DOMAIN rec), LAMBDA present :
    JObj([i \in 1..Len(present) |-> [key |-> present[i], val |-> Val(present[i])]] \o <<>>))

\* a block as a JavaScript value: its id is the token uid() drew
jsOfBlock(b) ==
  JsObjectOf(b, <<"id", "name", "terms", "isRegex", "exclude">>,
             LAMBDA k : CASE k = "id" -> JStr(<<ToString(b.id)>>)
                          [] k = "name" -> JStr(<<b.name>>)
                          [] k = "terms" -> JArr([i \in 1..Len(b.terms) |-> JStr(b.terms[i])] \o <<>>)
                          [] OTHER -> JBool(b[k]))

\* a configuration as a JavaScript value: a hole of the operators array reads undefined
jsOfConfig(c) ==
  JsObjectOf(c, <<"blocks", "operators", "caseInsensitive", "searchFields">>,
             LAMBDA k : CASE k = "blocks" -> JArr([i \in 1..Len(c.blocks) |-> jsOfBlock(c.blocks[i])] \o <<>>)
                          [] k = "operators" -> JArr([i \in 1..Len(c.operators) |->
                                                        IF c.operators[i] = "undefined" THEN JUndefined
                                                        ELSE JStr(<<c.operators[i]>>)] \o <<>>)
                          [] k = "caseInsensitive" -> JBool(c.caseInsensitive)
                          [] OTHER -> JsObjectOf(c.searchFields, FieldNames, LAMBDA f : JBool(c.searchFields[f])))

\* the block a parsed object stands for; uids are the tokens uid() has drawn so far
blockOfJs(o, uids) ==
  [k \in SeqRange(ObjKeys(o.v)) |->
     CASE k = "id" -> CHOOSE id \in uids : ToString(id) = JsAtom(ObjGet(o.v, k))
       [] k = "terms" -> [i \in 1..Len(ObjGet(o.v, k).v) |-> ObjGet(o.v, k).v[i].v] \o <<>>
       [] k = "name" -> JsAtom(ObjGet(o.v, k))
       [] OTHER -> ObjGet(o.v, k).v]

\* the configuration a parsed object stands for
configOfJs(o, uids) ==
  [k \in SeqRange(ObjKeys(o.v)) |->
     CASE k = "blocks" -> [i \in 1..Len(ObjGet(o.v, k).v) |-> blockOfJs(ObjGet(o.v, k).v[i], uids)] \o <<>>
       [] k = "operators" -> [i \in 1..Len(ObjGet(o.v, k).v) |-> JsAtom(ObjGet(o.v, k).v[i])] \o <<>>
       [] k = "searchFields" -> [f \in SeqRange(ObjKeys(ObjGet(o.v, k).v)) |-> ObjGet(ObjGet(o.v, k).v, f).v]
       [] OTHER -> ObjGet(o.v, k).v]

\* saveConfig: the text of the file query_config.json
saveConfig(c) == JsonStringify(jsOfConfig(c), 0)

\* loadConfig on the text of a file: the configuration handed to setCfg, if any; an
\* error of JSON.parse is caught and ignored
loadConfig(t, uids) ==
  With(JsonParse(t), LAMBDA r :
    IF r.threw THEN [threw |-> TRUE, set |-> FALSE]
    ELSE IF JsTruthy(JsProp(r.value, "blocks")) /\ JsTruthy(JsProp(r.value, "operators"))
         THEN [threw |-> FALSE, set |-> TRUE, cfg |-> configOfJs(r.value, uids)]
         ELSE [threw |-> FALSE, set |-> FALSE])

(***************************************************************************)
(* The App component                                                       *)
(***************************************************************************)
\* bounds of the model
MaxSteps == 2
MaxEdits == 4
MaxBlocks == 4

\* the texts typed or pasted into the inputs
K2Bib == <<"@","i","n","p","r","o","c","e","e","d","i","n","g","s","{","k","2",","," ","t","i","t","l","e","=","{","O","n","-","s","i","t","e"," ","V","R"," ","a","r","t","}",","," ","a","b","s","t","r","a","c","t","=","{","A","n"," ","o","n","-","s","i","t","e"," ","i","n","s","t","a","l","l","a","t","i","o","n"," ","w","i","t","h","o","u","t"," ","u","s","e","r"," ","s","t","u","d","y",".","}","}">>

BibInputs == {<<>>, K2Bib, <<"x">>}

QueryInputs == {<<>>, <<" ">>, <<"v","r"," ","A","N","D"," ","N","O","T"," ","a","r">>}

TermInputs == {<<"v","r">>}

NameInputs == {"Topic"}

\* no call of the evaluator or of the highlighter is in progress
Idle == [idle |-> TRUE]

Init ==
  /\ cfg = DEFAULT_CONFIG
  /\ bib = <<>>
  /\ queryString = <<>>
  /\ runOutput = NullOutput
  /\ matchedBib = <<>>
  /\ nextUid = 4
  /\ budget = MaxSteps
  /\ evalIn = Idle /\ evalOut = Idle /\ spanIn = Idle /\ spanOut = Idle
  /\ alerts = 0 /\ callIn = Idle /\ callOut = Idle

\* one handler call
Step == budget > 0 /\ budget' = budget - 1

SetCfg(c) ==
  /\ cfg' = c
  /\ UNCHANGED <<bib, queryString, runOutput, matchedBib, evalIn, evalOut, spanIn, spanOut, alerts, callIn, callOut>>

AddBlockAt ==
  /\ Step
  /\ Len(cfg.blocks) < MaxBlocks
  /\ \E index \in 0..Len(cfg.blocks) : SetCfg(addBlockAt(cfg, index, nextUid))
  /\ nextUid' = nextUid + 1

RemoveBlock ==
  /\ Step
  /\ \E i \in 0..(Len(cfg.blocks) - 1) : SetCfg(removeBlock(cfg, cfg.blocks[i + 1].id, i))
  /\ UNCHANGED nextUid

SetBlockName ==
  /\ Step
  /\ \E i \in 0..(Len(cfg.blocks) - 1), n \in NameInputs : SetCfg(updateBlock(cfg, i, [name |-> n]))
  /\ UNCHANGED nextUid

SetBlockIsRegex ==
  /\ Step
  /\ \E i \in 0..(Len(cfg.blocks) - 1) : SetCfg(updateBlock(cfg, i, [isRegex |-> ~Flag(cfg.blocks[i + 1], "isRegex")]))
  /\ UNCHANGED nextUid

SetBlockExclude ==
  /\ Step
  /\ \E i \in 0..(Len(cfg.blocks) - 1) : SetCfg(updateBlock(cfg, i, [exclude |-> ~Flag(cfg.blocks[i + 1], "exclude")]))
  /\ UNCHANGED nextUid

\* the term inputs of the first term of a block: typing over it, deleting it
EditTermFrom(inputs) ==
  /\ Step
  /\ \E i \in 0..(Len(cfg.blocks) - 1), t \in inputs :
        /\ Len(cfg.blocks[i + 1].terms) > 0
        /\ SetCfg(updateBlock(cfg, i, [terms |-> [cfg.blocks[i + 1].terms EXCEPT ![1] = t]]))
  /\ UNCHANGED nextUid

EditTerm == EditTermFrom(TermInputs)

DeleteTerm ==
  /\ Step
  /\ \E i \in 0..(Len(cfg.blocks) - 1) :
        /\ Len(cfg.blocks[i + 1].terms) > 0
        /\ SetCfg(updateBlock(cfg, i, [terms |-> Tail(cfg.blocks[i + 1].terms)]))
  /\ UNCHANGED nextUid

AddTerm ==
  /\ Step
  /\ \E i \in 0..(Len(cfg.blocks) - 1) : SetCfg(updateBlock(cfg, i, [terms |-> Append(cfg.blocks[i + 1].terms, <<>>)]))
  /\ UNCHANGED nextUid

\* the operator select between block i and block i + 1
UpdateOperator ==
  /\ Step
  /\ \E i \in 0..(Len(cfg.blocks) - 2), op \in {"AND", "OR"} :
        /\ i >= Len(cfg.operators) \/ cfg.operators[i + 1] # op
        /\ SetCfg(updateOperator(cfg, i, op))
  /\ UNCHANGED nextUid

SetCaseInsensitive ==
  /\ Step
  /\ SetCfg([cfg EXCEPT !.caseInsensitive = ~cfg.caseInsensitive])
  /\ UNCHANGED nextUid

SetSearchField ==
  /\ Step
  /\ \E f \in SeqRange(FieldNames) : SetCfg([cfg EXCEPT !.searchFields[f] = ~cfg.searchFields[f]])
  /\ UNCHANGED nextUid

SetQueryString ==
  /\ Step
  /\ \E q \in QueryInputs : q # queryString /\ queryString' = q
  /\ UNCHANGED <<cfg, bib, runOutput, matchedBib, nextUid, evalIn, evalOut, spanIn, spanOut, alerts, callIn, callOut>>

ApplyPastedQuery ==
  /\ Step
  /\ \E c \in {applyPastedQuery(cfg, queryString, nextUid)} :
        /\ SetCfg(c)
        /\ nextUid' = IF queryString = <<>> THEN nextUid ELSE nextUid + Len(c.blocks)

\* saveConfig: the file that is downloaded, and the configuration it was written from
SaveConfig ==
  /\ Step
  /\ callIn' = [op |-> "saveConfig"]
  /\ callOut' = [file |-> saveConfig(cfg), saved |-> cfg]
  /\ UNCHANGED <<cfg, bib, queryString, runOutput, matchedBib, nextUid, evalIn, evalOut, spanIn, spanOut, alerts>>

\* loadConfig on the file downloaded last: setCfg(obj) when the guard lets it through
LoadConfig ==
  /\ Step
  /\ "file" \in DOMAIN callOut
  /\ \E r \in {loadConfig(callOut.file, 0..nextUid)} :
        /\ callIn' = [op |-> "loadConfig", result |-> r]
        /\ cfg' = IF r.set THEN r.cfg ELSE cfg
  /\ UNCHANGED <<bib, queryString, runOutput, matchedBib, nextUid, evalIn, evalOut, spanIn, spanOut, alerts, callOut>>

\* the bib textarea: onChange with one of the texts
SetBibFrom(texts) ==
  /\ Step
  /\ \E b \in texts : b # bib /\ bib' = b
  /\ UNCHANGED <<cfg, queryString, runOutput, matchedBib, nextUid, evalIn, evalOut, spanIn, spanOut, alerts, callIn, callOut>>

SetBib == SetBibFrom(BibInputs)

\* the calls of setRunOutput in one call of run, in order: null at its start, then
\* the result, or null again in the catch clause
runOutputUpdates(r) == IF r.threw THEN <<NullOutput, NullOutput>> ELSE <<NullOutput, r.output>>

\* the state published with the first of the updates of a handler
BatchedFirst(prev, updates) == IF updates = <<>> THEN prev ELSE updates[1]

\* the state after an event handler: its updates are applied in order in one render
\* after the handler has returned, so that the last value is the one published
Batched(prev, updates) == IF updates = <<>> THEN prev ELSE updates[Len(updates)]

\* run: the result replaces runOutput and matchedBib; a thrown error is shown in an
\* alert and leaves runOutput null and matchedBib as it was
Run ==
  /\ Step
  /\ \E r \in {runResult(cfg, bib)} :
        /\ runOutput' = Batched(runOutput, runOutputUpdates(r))
        /\ matchedBib' = IF r.threw THEN matchedBib ELSE r.matchedBib
        /\ alerts' = IF r.threw THEN alerts + 1 ELSE alerts
  /\ UNCHANGED <<cfg, bib, queryString, nextUid, evalIn, evalOut, spanIn, spanOut, callIn, callOut>>

Next ==
  \/ AddBlockAt
  \/ RemoveBlock
  \/ SetBlockName
  \/ SetBlockIsRegex
  \/ SetBlockExclude
  \/ EditTerm
  \/ DeleteTerm
  \/ AddTerm
  \/ UpdateOperator
  \/ SetCaseInsensitive
  \/ SetSearchField
  \/ SetQueryString
  \/ ApplyPastedQuery
  \/ SetBib
  \/ Run

Spec == Init /\ [][Next]_vars

(***************************************************************************)
(* The block editor alone: the handlers that add, remove and edit blocks   *)
(* and paste a query, with no manual rename                                *)
(***************************************************************************)
InitEdit ==
  /\ cfg = DEFAULT_CONFIG
  /\ bib = <<>>
  /\ queryString = <<>>
  /\ runOutput = NullOutput
  /\ matchedBib = <<>>
  /\ nextUid = 4
  /\ budget = MaxEdits
  /\ evalIn = Idle /\ evalOut = Idle /\ spanIn = Idle /\ spanOut = Idle
  /\ alerts = 0 /\ callIn = Idle /\ callOut = Idle

NextEdit ==
  \/ AddBlockAt
  \/ RemoveBlock
  \/ SetBlockExclude
  \/ EditTerm
  \/ UpdateOperator
  \/ SetQueryString
  \/ ApplyPastedQuery

SpecEdit == InitEdit /\ [][NextEdit]_vars

(***************************************************************************)
(* The evaluator alone: one call of the closure of evaluateQueryOnText on  *)
(* one record, for every configuration and record of a bounded family      *)
(***************************************************************************)
MaxEvalBlocks == 3

\* the term of the i-th block of the family: "aa", "bb", "cc", ...
EvalWord(i) == <<Lowers[i], Lowers[i]>>

\* block names as the editor hands them out: "Group i", or "Block 4" for every
\* block (add a block to three, remove an older one, add again, and so on)
EvalName(i, shared) == IF shared THEN "Block 4" ELSE "Group " \o ToString(i)

EvalBlock(i, usable, excluded, shared) ==
  [id |-> i, name |-> EvalName(i, shared), terms |-> IF usable THEN <<EvalWord(i)>> ELSE << <<>> >>,
   isRegex |-> FALSE, exclude |-> excluded]

\* the configurations of at most MaxEvalBlocks blocks whose operators keep the length
\* invariant; a block is usable (one term) or not (one empty term), excluded or not
EvalConfigs ==
  UNION {{[caseInsensitive |-> TRUE,
           searchFields |-> [title |-> TRUE, abstract |-> TRUE, keywords |-> TRUE],
           blocks |-> [i \in 1..n |-> EvalBlock(i, i \in usable, i \in excluded, shared)],
           operators |-> ops] :
            usable \in SUBSET (1..n), excluded \in SUBSET (1..n), shared \in BOOLEAN,
            ops \in [1..MaxOf({0, n - 1}) -> {"AND", "OR"}]} : n \in 0..MaxEvalBlocks}

\* a record that holds the words of the set: the odd ones in its title, the even ones in its abstract
EvalRecord(words) ==
  [title |-> JoinSeqs(SelectSeq([i \in 1..MaxEvalBlocks |-> IF i \in words /\ i % 2 = 1 THEN EvalWord(i) ELSE <<>>],
                                LAMBDA w : w # <<>>), <<" ">>),
   abstract |-> JoinSeqs(SelectSeq([i \in 1..MaxEvalBlocks |-> IF i \in words /\ i % 2 = 0 THEN EvalWord(i) ELSE <<>>],
                                   LAMBDA w : w # <<>>), <<" ">>),
   keywords |-> <<>>]

InitEval ==
  /\ cfg \in EvalConfigs
  /\ evalIn \in {EvalRecord(words) : words \in SUBSET (1..MaxEvalBlocks)}
  /\ evalOut = Idle
  /\ bib = <<>> /\ queryString = <<>> /\ runOutput = NullOutput /\ matchedBib = <<>>
  /\ nextUid = MaxEvalBlocks + 1 /\ budget = 0
  /\ spanIn = Idle /\ spanOut = Idle
  /\ alerts = 0 /\ callIn = Idle /\ callOut = Idle

\* matcher(fields, cfg.searchFields)
Evaluate ==
  /\ evalOut = Idle
  /\ evalOut' = matchesByFields(cfg, evalIn, cfg.searchFields)
  /\ UNCHANGED <<cfg, bib, queryString, runOutput, matchedBib, nextUid, budget, evalIn, spanIn, spanOut, alerts, callIn, callOut>>

NextEval == Evaluate

SpecEval == InitEval /\ [][NextEval]_vars

(***************************************************************************)
(* run alone: one press of the Run button, for every configuration of a    *)
(* bounded family over a fixed BibTeX text                                 *)
(***************************************************************************)
MaxRunBlocks == 2

\* @a{k1,title={aa},abstract={bb}}@a{k2,title={aa}}@a{k3,abstract={bb}}@a{k4,title={x}}@a{k5,year={1}}
RunBib == <<"@", "a", "{", "k", "1", ",", "t", "i", "t", "l", "e", "=", "{", "a", "a", "}", ",", "a", "b", "s", "t", "r", "a", "c", "t", "=", "{", "b", "b", "}", "}", "@", "a", "{", "k", "2", ",", "t", "i", "t", "l", "e", "=", "{", "a", "a", "}", "}", "@", "a", "{", "k", "3", ",", "a", "b", "s", "t", "r", "a", "c", "t", "=", "{", "b", "b", "}", "}", "@", "a", "{", "k", "4", ",", "t", "i", "t", "l", "e", "=", "{", "x", "}", "}", "@", "a", "{", "k", "5", ",", "y", "e", "a", "r", "=", "{", "1", "}", "}">>

RunBibs == {RunBib}

\* the settings of the three field checkboxes
RunSearchFields == [SeqRange(FieldNames) -> BOOLEAN]

\* the configurations of at most MaxRunBlocks blocks: block i searches for EvalWord(i)
RunConfigs ==
  UNION {{[caseInsensitive |-> TRUE,
           searchFields |-> sf,
           blocks |-> [i \in 1..n |-> EvalBlock(i, i \in usable, i \in excluded, FALSE)],
           operators |-> ops] :
            usable \in SUBSET (1..n), excluded \in SUBSET (1..n), sf \in RunSearchFields,
            ops \in [1..MaxOf({0, n - 1}) -> {"AND", "OR"}]} : n \in 0..MaxRunBlocks}

InitRun ==
  /\ cfg \in RunConfigs
  /\ bib \in RunBibs
  /\ queryString = <<>> /\ runOutput = NullOutput /\ matchedBib = <<>>
  /\ nextUid = MaxRunBlocks + 1 /\ budget = 1
  /\ evalIn = Idle /\ evalOut = Idle /\ spanIn = Idle /\ spanOut = Idle
  /\ alerts = 0 /\ callIn = Idle /\ callOut = Idle

NextRun == Run

SpecRun == InitRun /\ [][NextRun]_vars

(***************************************************************************)
(* The highlighter alone: one call of highlightByBlocks on the title of a  *)
(* row, for every text and hit map of a bounded family                     *)
(***************************************************************************)
MaxHits == 2

\* "ab cd ab", "cd ab-cd"
SpanTexts == {<<"a", "b", " ", "c", "d", " ", "a", "b">>, <<"c", "d", " ", "a", "b", "-", "c", "d">>}

\* "ab cd", "cd ab", "cd", "*", "b.c"
SpanTerms == {<<"a", "b", " ", "c", "d">>, <<"c", "d", " ", "a", "b">>, <<"c", "d">>, <<"*">>, <<"b", ".", "c">>}

\* the hit lists of one block in the field: at most MaxHits terms, none twice
SpanHits == {hits \in UNION {[1..n -> SpanTerms] : n \in 0..MaxHits} :
               \A i, j \in 1..Len(hits) : i # j => hits[i] # hits[j]}

\* the hit map of a row whose hits are all in the title; a block without hits has no key
SpanMap(hitsA, hitsB) ==
  SelectSeq(<<[key |-> "A", val |-> [title |-> hitsA, abstract |-> <<>>, keywords |-> <<>>]],
              [key |-> "B", val |-> [title |-> hitsB, abstract |-> <<>>, keywords |-> <<>>]]>>,
            LAMBDA kv : kv.val.title # <<>>)

\* blocks A and B; B may be a regex block
SpanConfigs ==
  {[caseInsensitive |-> TRUE,
    searchFields |-> [title |-> TRUE, abstract |-> TRUE, keywords |-> TRUE],
    blocks |-> <<[id |-> 1, name |-> "A", terms |-> << <<>> >>, isRegex |-> FALSE],
                 [id |-> 2, name |-> "B", terms |-> << <<>> >>, isRegex |-> r]>>,
    operators |-> <<"AND">>] : r \in BOOLEAN}

InitSpans ==
  /\ cfg \in SpanConfigs
  /\ spanIn \in {[text |-> t, matchedTermsMap |-> SpanMap(a, b), field |-> "title"] :
                    t \in SpanTexts, a \in SpanHits, b \in SpanHits}
  /\ spanOut = Idle
  /\ bib = <<>> /\ queryString = <<>> /\ runOutput = NullOutput /\ matchedBib = <<>>
  /\ nextUid = 3 /\ budget = 0
  /\ evalIn = Idle /\ evalOut = Idle
  /\ alerts = 0 /\ callIn = Idle /\ callOut = Idle

\* highlightByBlocks(text, matchedTermsMap, cfg, field)
Highlight ==
  /\ spanOut = Idle
  /\ spanOut' = highlightSpans(spanIn.text, spanIn.matchedTermsMap, cfg, spanIn.field)
  /\ UNCHANGED <<cfg, bib, queryString, runOutput, matchedBib, nextUid, budget, evalIn, evalOut, spanIn, alerts, callIn, callOut>>

NextSpans == Highlight

SpecSpans == InitSpans /\ [][NextSpans]_vars

(***************************************************************************)
(* Properties of the evaluator (SpecEval)                                  *)
(***************************************************************************)
\* a term of nothing but white space
Blank(t) == \A k \in 1..Len(t) : t[k] \in SpaceChars

\* block b fires on record f: a non-empty term of b is found in a selected, non-empty field
Fires(c, b, f) ==
  \E x \in SeqRange(FieldNames), k \in 1..Len(b.terms) :
     /\ c.searchFields[x] /\ f[x] # <<>> /\ ~Blank(b.terms[k])
     /\ RegExpTest(safeRegExp(toSmartWordPattern(b.terms[k], Flag(b, "isRegex")),
                              IF c.caseInsensitive THEN {"i"} ELSE {}), f[x])

\* what a block contributes to the fold: a NOT block contributes the negation
Contribution(c, b, f) == IF Flag(b, "exclude") THEN ~Fires(c, b, f) ELSE Fires(c, b, f)

\* (((c1 op1 c2) op2 c3) ...) over the first k blocks, AND and OR at equal precedence
RECURSIVE LeftFold(_, _, _)
LeftFold(c, f, k) ==
  IF k = 1 THEN Contribution(c, c.blocks[1], f)
  ELSE IF c.operators[k - 1] = "AND" THEN LeftFold(c, f, k - 1) /\ Contribution(c, c.blocks[k], f)
  ELSE LeftFold(c, f, k - 1) \/ Contribution(c, c.blocks[k], f)

Usable(b) == \E k \in 1..Len(b.terms) : ~Blank(b.terms[k])

AllUsable(c) == \A i \in 1..Len(c.blocks) : Usable(c.blocks[i])

LengthInvariant(c) == Len(c.operators) = MaxOf({0, Len(c.blocks) - 1})

Evaluated == evalOut # Idle

\* C1: when every block has a non-empty term and operators.length = blocks.length - 1,
\* the evaluator's ok is the strict left fold of the block contributions, with AND and
\* OR at equal precedence
C1_LeftFold ==
  (Evaluated /\ Len(cfg.blocks) >= 1 /\ AllUsable(cfg) /\ Len(cfg.operators) = Len(cfg.blocks) - 1)
     => evalOut.ok = LeftFold(cfg, evalIn, Len(cfg.blocks))

\* A OR B AND C on a record where A fires and B and C do not: (A OR B) AND C is false,
\* where A OR (B AND C) would be true
C1_Witness ==
  /\ Evaluated /\ Len(cfg.blocks) = 3 /\ AllUsable(cfg) /\ cfg.operators = <<"OR", "AND">>
  /\ \A i \in 1..3 : ~Flag(cfg.blocks[i], "exclude")
  /\ Fires(cfg, cfg.blocks[1], evalIn) /\ ~Fires(cfg, cfg.blocks[2], evalIn) /\ ~Fires(cfg, cfg.blocks[3], evalIn)
  /\ evalOut.ok = FALSE

\* the configuration after removeBlock of every block without a non-empty term
RECURSIVE WithoutEmptyBlocks(_)
WithoutEmptyBlocks(c) ==
  IF AllUsable(c) THEN c
  ELSE With(MinOf({i \in 1..Len(c.blocks) : ~Usable(c.blocks[i])}), LAMBDA i :
         WithoutEmptyBlocks(removeBlock(c, c.blocks[i].id, i - 1)))

\* C2: a block without a non-empty term is as good as absent: under the length invariant
\* the evaluation gives the same ok, matched block names and hit map as the evaluation of
\* the configuration from which removeBlock has removed every such block
C2_EmptyBlockAbsent ==
  (Evaluated /\ LengthInvariant(cfg))
     => evalOut = matchesByFields(WithoutEmptyBlocks(cfg), evalIn, cfg.searchFields)

\* the case of C2: a block without terms before two usable ones has been evaluated
C2_Witness ==
  /\ Evaluated /\ LengthInvariant(cfg) /\ Len(cfg.blocks) = 3
  /\ ~Usable(cfg.blocks[1]) /\ Usable(cfg.blocks[2]) /\ Usable(cfg.blocks[3])

\* C3: a usable NOT block contributes false when it fires and true when it does not, and
\* its name is neither a key of the hit map nor among the matched block names
C3_NotBlock ==
  Evaluated =>
    /\ (Len(cfg.blocks) >= 1 /\ AllUsable(cfg) /\ LengthInvariant(cfg))
          => evalOut.ok = LeftFold(cfg, evalIn, Len(cfg.blocks))
    /\ \A i \in 1..Len(cfg.blocks) :
          (Usable(cfg.blocks[i]) /\ Flag(cfg.blocks[i], "exclude"))
             => /\ blockName(cfg.blocks[i], i - 1) \notin SeqRange(ObjKeys(evalOut.detailed))
                /\ blockName(cfg.blocks[i], i - 1) \notin SeqRange(evalOut.matchedBlocks)

\* the case of C3: a NOT block that fired and one that did not, both evaluated
C3_Witness ==
  /\ Evaluated
  /\ \E i, j \in 1..Len(cfg.blocks) :
        /\ Usable(cfg.blocks[i]) /\ Flag(cfg.blocks[i], "exclude") /\ Fires(cfg, cfg.blocks[i], evalIn)
        /\ Usable(cfg.blocks[j]) /\ Flag(cfg.blocks[j], "exclude") /\ ~Fires(cfg, cfg.blocks[j], evalIn)

(***************************************************************************)
(* Properties of the block editor (SpecEdit)                               *)
(***************************************************************************)
\* C4: after any sequence of addBlockAt, removeBlock, updateBlock, updateOperator and
\* applyPastedQuery from DEFAULT_CONFIG, operators.length = max(0, blocks.length - 1)
C4_OperatorsLength == Len(cfg.operators) = MaxOf({0, Len(cfg.blocks) - 1})

\* the case of C4: every block was removed and one was added
C4_Witness == Len(cfg.blocks) = 1 /\ cfg.blocks[1].id >= 4 /\ budget = MaxEdits - 4

\* C5: after any sequence of addBlockAt, removeBlock and applyPastedQuery from
\* DEFAULT_CONFIG, with no manual rename, no two blocks have the same name
C5_UniqueNames ==
  \A i, j \in 1..Len(cfg.blocks) : i # j => cfg.blocks[i].name # cfg.blocks[j].name

\* the case of C5: a block was added, one was removed, and a block was added again
C5_Witness ==
  /\ Len(cfg.blocks) = 4 /\ budget = MaxEdits - 3
  /\ Cardinality({i \in 1..3 : cfg.blocks[i].id >= 4}) = 2

(***************************************************************************)
(* Properties of run (SpecRun)                                             *)
(***************************************************************************)
RunDone == ~runOutput.isNull

\* the records of the text of the run: cite key, fields as run reads them, and what the
\* evaluator returns for them under the configuration of the run
RunRecords ==
  With(parseBibtexEntries(bib).entries, LAMBDA es :
    [k \in 1..Len(es) |->
       With(recordFields(es[k]), LAMBDA f :
         [key |-> Prop(es[k], K_citekey), fields |-> f, res |-> matchesByFields(cfg, f, cfg.searchFields)])])

\* the record has a selected field that is not empty
Eligible(c, f) == \E x \in SeqRange(FieldNames) : c.searchFields[x] /\ f[x] # <<>>

CiteKeysOf(rows) == {rows[i].CiteKey : i \in 1..Len(rows)}

\* C6: a record with a non-empty selected field is Matched exactly when the fold is true,
\* Partial exactly when the fold is false and the hit map is not empty, and Unmatched
\* exactly when the fold is false and the hit map is empty
C6_Classification ==
  RunDone =>
    With(RunRecords, LAMBDA recs :
      \A k \in 1..Len(recs) :
         Eligible(cfg, recs[k].fields) =>
           /\ (recs[k].key \in CiteKeysOf(runOutput.matched)) <=> recs[k].res.ok
           /\ (recs[k].key \in CiteKeysOf(runOutput.partial)) <=> (~recs[k].res.ok /\ recs[k].res.detailed # <<>>)
           /\ (recs[k].key \in CiteKeysOf(runOutput.unmatched)) <=> (~recs[k].res.ok /\ recs[k].res.detailed = <<>>))

\* a run that put records in each of the three lists
C6_Witness ==
  RunDone /\ runOutput.matched # <<>> /\ runOutput.partial # <<>> /\ runOutput.unmatched # <<>>

\* C7: a record whose selected fields are all empty or deselected is in none of the three
\* lists, whatever the fold gives, and counts in report.total but not in report.eligible
C7_Ineligible ==
  RunDone =>
    With(RunRecords, LAMBDA recs :
      /\ \A k \in 1..Len(recs) :
            ~Eligible(cfg, recs[k].fields) =>
               recs[k].key \notin (CiteKeysOf(runOutput.matched) \cup CiteKeysOf(runOutput.partial)
                                   \cup CiteKeysOf(runOutput.unmatched))
      /\ runOutput.report.total = Len(recs)
      /\ runOutput.report.eligible = Cardinality({k \in 1..Len(recs) : Eligible(cfg, recs[k].fields)}))

\* a run over eligible records and a record without a selected field for which the fold is true
C7_Witness ==
  /\ RunDone /\ runOutput.report.eligible > 0
  /\ With(RunRecords, LAMBDA recs :
       \E k \in 1..Len(recs) : ~Eligible(cfg, recs[k].fields) /\ recs[k].res.ok)

\* C8: when no block has a non-empty term the evaluator returns ok = true, no matched
\* block name and an empty hit map for every record, so every eligible record is Matched
\* and none is Partial or Unmatched
C8_NoUsableBlock ==
  (RunDone /\ \A i \in 1..Len(cfg.blocks) : ~Usable(cfg.blocks[i])) =>
    With(RunRecords, LAMBDA recs :
      /\ \A k \in 1..Len(recs) :
            /\ recs[k].res = [ok |-> TRUE, matchedBlocks |-> <<>>, detailed |-> <<>>]
            /\ Eligible(cfg, recs[k].fields) => recs[k].key \in CiteKeysOf(runOutput.matched)
      /\ runOutput.partial = <<>> /\ runOutput.unmatched = <<>>)

\* a run of two blocks without a term, one of them a NOT block, over eligible records
C8_Witness ==
  /\ RunDone /\ Len(cfg.blocks) = 2 /\ \A i \in 1..2 : ~Usable(cfg.blocks[i])
  /\ Flag(cfg.blocks[2], "exclude") /\ cfg.operators = <<"AND">>
  /\ Len(runOutput.matched) = 4

(***************************************************************************)
(* The k2 scenario (Spec)                                                  *)
(***************************************************************************)
K2Key == <<"k", "2">>

\* the press of Run on the default configuration and the k2 entry
RunsK2 == cfg = DEFAULT_CONFIG /\ bib = K2Bib /\ Run

\* C9 as the code has it: with the default configuration a run over the k2 entry
\* classifies k2 as Partial, not Matched and not Unmatched; Group 3 alone hits
C9_K2Partial ==
  [][RunsK2 =>
       /\ ~runOutput'.isNull
       /\ K2Key \in CiteKeysOf(runOutput'.partial)
       /\ runOutput'.matched = <<>> /\ runOutput'.unmatched = <<>>
       /\ ObjKeys(runOutput'.partial[1].MatchedTermsMap) = <<"Group 3">>]_vars

\* C9: with the default configuration a run over the k2 entry classifies k2 as
\* Unmatched, not Matched and not Partial
C9_K2Unmatched ==
  [][RunsK2 =>
       /\ ~runOutput'.isNull
       /\ K2Key \in CiteKeysOf(runOutput'.unmatched)
       /\ runOutput'.matched = <<>> /\ runOutput'.partial = <<>>]_vars

\* the result of that run on the screen
C9_Witness ==
  /\ cfg = DEFAULT_CONFIG /\ bib = K2Bib /\ RunDone
  /\ runOutput.report = [total |-> 1, eligible |-> 1, matched |-> 0, partial |-> 1, unmatched |-> 0]
  /\ K2Key \in CiteKeysOf(runOutput.partial)

(***************************************************************************)
(* Properties of the highlighter (SpecSpans)                               *)
(***************************************************************************)
Highlighted == spanOut # Idle /\ ~spanOut.threw

\* C10: any two distinct spans of the list collectSpans returns satisfy end1 <= start2 or
\* end2 <= start1, so each character of the text is credited to at most one block
C10_NoOverlap ==
  Highlighted =>
    /\ \A i, j \in 1..Len(spanOut.spans) :
          i # j => \/ spanOut.spans[i].end <= spanOut.spans[j].start
                   \/ spanOut.spans[j].end <= spanOut.spans[i].start
    /\ \A pos \in 0..(Len(spanIn.text) - 1) :
          Cardinality({i \in 1..Len(spanOut.spans) :
                         spanOut.spans[i].start <= pos /\ pos < spanOut.spans[i].end}) <= 1

\* "ab cd" of block A and "cd ab" of block B both match in "ab cd ab", on overlapping
\* ranges: the span of A is kept and the span of B is dropped
C10_Witness ==
  /\ Highlighted
  /\ spanIn.text = <<"a", "b", " ", "c", "d", " ", "a", "b">>
  /\ spanIn.matchedTermsMap = SpanMap(<<<<"a", "b", " ", "c", "d">>>>, <<<<"c", "d", " ", "a", "b">>>>)
  /\ Len(spanOut.spans) = 1 /\ spanOut.spans[1].block = "A"
  /\ spanOut.spans[1].start = 0 /\ spanOut.spans[1].end = 5

(***************************************************************************)
(* The entry parser alone: one call of parseBibtexEntries on every text of *)
(* a bounded family of noise, with and without an entry after it           *)
(***************************************************************************)
MaxNoise == 3

\* noise has no brace: no "@" of it starts a header
NoiseChars == {" ", "\n", "x", "@", ","}

NoiseTexts == UNION {[1..n -> NoiseChars] : n \in 0..MaxNoise}

\* "@a{k}": a header without the comma of a citation key
HeaderOnly == <<"@", "a", "{", "k", "}">>

\* "@a{k,}": the least chunk that parses
LeastEntry == <<"@", "a", "{", "k", ",", "}">>

ParseInputs ==
  {[text |-> pre \o suf, noise |-> suf # LeastEntry] : pre \in NoiseTexts, suf \in {<<>>, HeaderOnly, LeastEntry}}

InitParse ==
  /\ callIn \in ParseInputs
  /\ callOut = Idle
  /\ cfg = DEFAULT_CONFIG /\ bib = <<>> /\ queryString = <<>> /\ runOutput = NullOutput /\ matchedBib = <<>>
  /\ nextUid = 4 /\ budget = 0 /\ alerts = 0
  /\ evalIn = Idle /\ evalOut = Idle /\ spanIn = Idle /\ spanOut = Idle

\* parseBibtexEntries(text)
ParseEntries ==
  /\ callOut = Idle
  /\ callOut' = parseBibtexEntries(callIn.text)
  /\ UNCHANGED <<cfg, bib, queryString, runOutput, matchedBib, nextUid, budget, evalIn, evalOut, spanIn, spanOut,
                 alerts, callIn>>

NextParse == ParseEntries

SpecParse == InitParse /\ [][NextParse]_vars

MaxRuns == 3

\* @a{k1,title={aa}}
HitBib == <<"@", "a", "{", "k", "1", ",", "t", "i", "t", "l", "e", "=", "{", "a", "a", "}", "}">>

\* @a{k2,title={x}}
MissBib == <<"@", "a", "{", "k", "2", ",", "t", "i", "t", "l", "e", "=", "{", "x", "}", "}">>

\* "", " ", "x", and the two entries, alone and one after the other
RunsBibs == {<<>>, <<" ">>, <<"x">>, HitBib, MissBib, HitBib \o MissBib}

RunsConfigs == {c \in RunConfigs : Len(c.blocks) <= 1 /\ \A x \in SeqRange(FieldNames) : c.searchFields[x]}

InitRuns ==
  /\ cfg \in RunsConfigs
  /\ bib \in RunsBibs
  /\ queryString = <<>> /\ runOutput = NullOutput /\ matchedBib = <<>>
  /\ nextUid = 2 /\ budget = MaxRuns
  /\ evalIn = Idle /\ evalOut = Idle /\ spanIn = Idle /\ spanOut = Idle
  /\ alerts = 0 /\ callIn = Idle /\ callOut = Idle

SetRunsBib == SetBibFrom(RunsBibs)

NextRuns ==
  \/ SetRunsBib
  \/ Run

SpecRuns == InitRuns /\ [][NextRuns]_vars

(***************************************************************************)
(* Properties of runs one after the other (SpecRuns)                       *)
(***************************************************************************)
\* what the Export button hands out: it is disabled without a result or without a matched record
Exportable == ~runOutput.isNull /\ runOutput.matched # <<>>

\* C12: a run on which parseBibtexEntries throws publishes no lists, no report and no
\* term statistics: runOutput is null after it, whatever was published before, and the
\* error is shown in an alert; a run over a text with a parsed entry of which the
\* evaluator accepts none completes without an alert and publishes a result whose
\* matched list is empty and whose report counts no matched record
C12_ParseFailureAborts ==
  [][Run =>
       /\ parseBibtexEntries(bib).threw =>
             runOutput'.isNull /\ alerts' = alerts + 1
       /\ (RunRecords # <<>> /\ \A k \in 1..Len(RunRecords) : ~RunRecords[k].res.ok) =>
             /\ ~runOutput'.isNull /\ alerts' = alerts
             /\ runOutput'.matched = <<>> /\ runOutput'.report.matched = 0
             /\ runOutput'.report.total = Len(RunRecords)]_vars

\* a failed run after a run that matched a record, and after it a run that parsed a record and matched none
C12_Witness ==
  /\ alerts = 1 /\ budget = 0 /\ bib = MissBib
  /\ ~runOutput.isNull /\ runOutput.matched = <<>> /\ Len(runOutput.unmatched) = 1
  /\ matchedBib = <<>>

RenderTerms ==
  {<<"a", "b">>, <<"a", "+">>, <<"a", ".", "b">>, <<"(", "a", "b">>, <<"a", "(", "b">>, <<"[", "a", "b">>,
   <<"a", "b", ")">>, <<"a", "{", "1">>}

\* "ab (ab", "x a(b", "aa [ab ab)", "a.b a{1"
RenderTitles ==
  {<<"a", "b", " ", "(", "a", "b">>, <<"x", " ", "a", "(", "b">>,
   <<"a", "a", " ", "[", "a", "b", " ", "a", "b", ")">>, <<"a", ".", "b", " ", "a", "{", "1">>}

RenderConfigs ==
  {[caseInsensitive |-> ci,
    searchFields |-> [title |-> TRUE, abstract |-> TRUE, keywords |-> TRUE],
    blocks |-> <<[id |-> 1, name |-> "Group 1", terms |-> <<t>>, isRegex |-> r]>>,
    operators |-> <<>>] : t \in RenderTerms, r \in BOOLEAN, ci \in BOOLEAN}

InitRender ==
  /\ cfg \in RenderConfigs
  /\ evalIn \in {[title |-> t, abstract |-> <<>>, keywords |-> <<>>] : t \in RenderTitles}
  /\ evalOut = Idle /\ spanIn = Idle /\ spanOut = Idle
  /\ bib = <<>> /\ queryString = <<>> /\ runOutput = NullOutput /\ matchedBib = <<>>
  /\ nextUid = 2 /\ budget = 0
  /\ alerts = 0 /\ callIn = Idle /\ callOut = Idle

\* highlightByBlocks(r.TitleRaw, r.MatchedTermsMap, cfg, "title") for the row of the record
HighlightRow ==
  /\ evalOut # Idle /\ spanOut = Idle
  /\ spanIn' = [text |-> evalIn.title, matchedTermsMap |-> evalOut.detailed, field |-> "title"]
  /\ spanOut' = highlightSpans(evalIn.title, evalOut.detailed, cfg, "title")
  /\ UNCHANGED <<cfg, bib, queryString, runOutput, matchedBib, nextUid, budget, evalIn, evalOut, alerts, callIn, callOut>>

NextRender ==
  \/ Evaluate
  \/ HighlightRow

SpecRender == InitRender /\ [][NextRender]_vars

(***************************************************************************)
(* Properties of a row on the screen (SpecRender)                          *)
(***************************************************************************)
\* the term of the block is regex-flagged, has a metacharacter and does not compile
InvalidRegexTerm ==
  /\ Flag(cfg.blocks[1], "isRegex") /\ hasRegexMeta(cfg.blocks[1].terms[1])
  /\ ~RegExpParse(cfg.blocks[1].terms[1], IF cfg.caseInsensitive THEN {"i"} ELSE {}).ok

\* the text has the term in it, letter for letter, but for the case when the search ignores it
HasLiteral(text, term) ==
  \E p \in 0..(Len(text) - Len(term)) :
     \A k \in 1..Len(term) : Canon(text[p + k], IF cfg.caseInsensitive THEN {"i"} ELSE {}) =
                              Canon(term[k], IF cfg.caseInsensitive THEN {"i"} ELSE {})

\* C13: a regex-flagged term with metacharacters that does not compile raises no error:
\* the evaluator hits exactly the records that hold the term as literal text, and the
\* highlighter that compiles the hit terms again completes as well
C13_InvalidRegexNeverThrows ==
  (InvalidRegexTerm /\ evalOut # Idle) =>
     /\ evalOut.ok <=> HasLiteral(evalIn.title, cfg.blocks[1].terms[1])
     /\ spanOut # Idle => ~spanOut.threw

(***************************************************************************)
(* Properties of the pasted query (SpecEdit)                               *)
(***************************************************************************)
\* C14: for the empty string and for a string of nothing but white space
\* parseBooleanQuery returns null, and applyPastedQuery leaves the whole
\* configuration (blocks, operators, flags) as it was
C14_BlankQueryKeepsConfig ==
  [][(ApplyPastedQuery /\ Blank(queryString)) =>
        /\ parseBooleanQuery(queryString, nextUid).isNull
        /\ cfg' = cfg]_vars

(***************************************************************************)
(* The query string parser alone: one call of parseBooleanQuery on every   *)
(* query of a bounded family of groups and connectives                     *)
(***************************************************************************)
MaxGroups == 3

\* a, "a b", (a OR b), NOT b, not (a or "b c"), c OR d
QueryGroups ==
  {<<"a">>, <<"\"", "a", " ", "b", "\"">>, <<"(", "a", " ", "O", "R", " ", "b", ")">>, <<"N", "O", "T", " ", "b">>,
   <<"n", "o", "t", " ", "(", "a", " ", "o", "r", " ", "\"", "b", " ", "c", "\"", ")">>,
   <<"c", " ", "O", "R", " ", "d">>}

\* the connectives that split the query: AND in either case, with one space or more around it
AndWords == {<<" ", "A", "N", "D", " ">>, <<" ", "a", "n", "d", " ", " ">>}

\* the queries of n groups, each with the number of groups it was written with
RECURSIVE QueriesOf(_)
QueriesOf(n) ==
  IF n = 1 THEN {[input |-> g, groups |-> 1] : g \in QueryGroups}
  ELSE {[input |-> q.input \o w \o g, groups |-> n] : q \in QueriesOf(n - 1), w \in AndWords, g \in QueryGroups}

InitQuery ==
  /\ callIn \in UNION {QueriesOf(n) : n \in 1..MaxGroups}
  /\ callOut = Idle
  /\ cfg = DEFAULT_CONFIG /\ bib = <<>> /\ queryString = <<>> /\ runOutput = NullOutput /\ matchedBib = <<>>
  /\ nextUid = 4 /\ budget = 0 /\ alerts = 0
  /\ evalIn = Idle /\ evalOut = Idle /\ spanIn = Idle /\ spanOut = Idle

\* parseBooleanQuery(input)
ParseQuery ==
  /\ callOut = Idle
  /\ callOut' = parseBooleanQuery(callIn.input, nextUid)
  /\ UNCHANGED <<cfg, bib, queryString, runOutput, matchedBib, nextUid, budget, evalIn, evalOut, spanIn, spanOut,
                 alerts, callIn>>

NextQuery == ParseQuery

SpecQuery == InitQuery /\ [][NextQuery]_vars

(***************************************************************************)
(* Properties of the query string parser (SpecQuery)                       *)
(***************************************************************************)
\* C15: for a query of n >= 1 top-level groups parseBooleanQuery returns exactly n
\* blocks, named Group 1 ... Group n in the order of the query, each with isRegex
\* false, and exactly n - 1 operators, all of them AND
C15_GroupsBecomeBlocks ==
  callOut # Idle =>
     /\ ~callOut.isNull
     /\ Len(callOut.blocks) = callIn.groups
     /\ \A i \in 1..Len(callOut.blocks) :
           /\ callOut.blocks[i].name = <<"Group 1", "Group 2", "Group 3", "Group 4", "Group 5">>[i]
           /\ callOut.blocks[i].isRegex = FALSE
     /\ Len(callOut.operators) = callIn.groups - 1
     /\ \A i \in 1..Len(callOut.operators) : callOut.operators[i] = "AND"

\* a query of three groups, the second a NOT group, parsed into three blocks
C15_Witness ==
  /\ callOut # Idle /\ callIn.groups = 3
  /\ Len(callOut.blocks) = 3 /\ callOut.blocks[2].exclude /\ callOut.operators = <<"AND", "AND">>

(***************************************************************************)
(* The pattern compiler alone: one call of toSmartWordPattern on a term,   *)
(* and the test of the compiled pattern on a text as the evaluator does it *)
(***************************************************************************)
\* "home*", "home", " home ", "a*b", "a*b*", "a.b", "a.b*", "a+", "*"
PatternTerms ==
  {<<"h", "o", "m", "e", "*">>, <<"h", "o", "m", "e">>, <<" ", "h", "o", "m", "e", " ">>, <<"a", "*", "b">>,
   <<"a", "*", "b", "*">>, <<"a", ".", "b">>, <<"a", ".", "b", "*">>, <<"a", "+">>, <<"*">>}

\* "homemade setup", "home.", "at home", "ab", "aab", "a*b", "a.b", "axbc", "a*bc a+"
PatternTexts ==
  {<<"h", "o", "m", "e", "m", "a", "d", "e", " ", "s", "e", "t", "u", "p">>, <<"h", "o", "m", "e", ".">>,
   <<"a", "t", " ", "h", "o", "m", "e">>, <<"a", "b">>, <<"a", "a", "b">>, <<"a", "*", "b">>, <<"a", ".", "b">>,
   <<"a", "x", "b", "c">>, <<"a", "*", "b", "c", " ", "a", "+">>}

InitPattern ==
  /\ callIn \in {[term |-> t, isRegex |-> r, text |-> x] : t \in PatternTerms, r \in BOOLEAN, x \in PatternTexts}
  /\ callOut = Idle
  /\ cfg = DEFAULT_CONFIG /\ bib = <<>> /\ queryString = <<>> /\ runOutput = NullOutput /\ matchedBib = <<>>
  /\ nextUid = 4 /\ budget = 0 /\ alerts = 0
  /\ evalIn = Idle /\ evalOut = Idle /\ spanIn = Idle /\ spanOut = Idle

\* safeRegExp(toSmartWordPattern(term, isRegex), "").test(text)
CompilePattern ==
  /\ callOut = Idle
  /\ \E src \in {toSmartWordPattern(callIn.term, callIn.isRegex)} :
        callOut' = [source |-> src, hit |-> RegExpTest(safeRegExp(src, {}), callIn.text)]
  /\ UNCHANGED <<cfg, bib, queryString, runOutput, matchedBib, nextUid, budget, evalIn, evalOut, spanIn, spanOut,
                 alerts, callIn>>

NextPattern == CompilePattern

SpecPattern == InitPattern /\ [][NextPattern]_vars

(***************************************************************************)
(* Properties of the pattern compiler (SpecPattern)                        *)
(***************************************************************************)
\* the text holds lit letter for letter after a word boundary
LiteralAfterBoundary(text, lit) ==
  \E q \in 0..Len(text) : IsWordBoundary(text, q) /\ StartsWithAt(text, q, lit)

\* the text holds lit letter for letter between two word boundaries
LiteralBetweenBoundaries(text, lit) ==
  \E q \in 0..Len(text) :
     IsWordBoundary(text, q) /\ StartsWithAt(text, q, lit) /\ IsWordBoundary(text, q + Len(lit))

\* C16: a regex-flagged term with a regex metacharacter is compiled verbatim; any other
\* term that ends in "*" is compiled to a pattern that finds its stem as literal text
\* after a word boundary, whatever follows the stem; every remaining term is compiled
\* to a pattern that finds the term as literal text between two word boundaries
C16_PatternByPriority ==
  callOut # Idle =>
     With(Trim(callIn.term), LAMBDA t :
       CASE callIn.isRegex /\ hasRegexMeta(t) -> callOut.source = t
         [] ~(callIn.isRegex /\ hasRegexMeta(t)) /\ t[Len(t)] = "*" ->
              callOut.hit <=> LiteralAfterBoundary(callIn.text, SubSeq(t, 1, Len(t) - 1))
         [] OTHER -> callOut.hit <=> LiteralBetweenBoundaries(callIn.text, t))

\* C24: a term that is not regex-flagged and does not end in "*" is found exactly in
\* the texts that hold it letter for letter between two word boundaries; none of its
\* characters, a "*" before its end included, acts as an operator of the pattern
C24_WholeTermLiteral ==
  (callOut # Idle /\ "term" \in DOMAIN callIn /\ ~callIn.isRegex) =>
     With(Trim(callIn.term), LAMBDA t :
       t[Len(t)] # "*" => (callOut.hit <=> LiteralBetweenBoundaries(callIn.text, t)))

(***************************************************************************)
(* run alone, for the term statistics: one press of the Run button, for    *)
(* blocks of one or two terms over a text in which a term is found in two  *)
(* fields of a record                                                      *)
(***************************************************************************)
\* @a{k1,title={aa},abstract={aa bb}}@a{k2,title={bb}}@a{k3,title={x}}
StatsBib ==
  <<"@", "a", "{", "k", "1", ",", "t", "i", "t", "l", "e", "=", "{", "a", "a", "}", ",",
    "a", "b", "s", "t", "r", "a", "c", "t", "=", "{", "a", "a", " ", "b", "b", "}", "}",
    "@", "a", "{", "k", "2", ",", "t", "i", "t", "l", "e", "=", "{", "b", "b", "}", "}",
    "@", "a", "{", "k", "3", ",", "t", "i", "t", "l", "e", "=", "{", "x", "}", "}">>

\* the term lists of a block: ["aa"], [" aa ", "cc"], ["bb"], ["aa", "bb"]
StatsTerms ==
  {<< <<"a", "a">> >>, << <<" ", "a", "a", " ">>, <<"c", "c">> >>, << <<"b", "b">> >>,
   << <<"a", "a">>, <<"b", "b">> >>}

StatsConfigs ==
  UNION {{[caseInsensitive |-> TRUE,
           searchFields |-> [title |-> TRUE, abstract |-> TRUE, keywords |-> TRUE],
           blocks |-> [i \in 1..n |-> [id |-> i, name |-> EvalName(i, FALSE), terms |-> terms[i],
                                        isRegex |-> FALSE, exclude |-> i \in excluded]],
           operators |-> ops] :
            terms \in [1..n -> StatsTerms], excluded \in SUBSET (1..n),
            ops \in [1..(n - 1) -> {"AND", "OR"}]} : n \in 1..MaxRunBlocks}

InitStats ==
  /\ cfg \in StatsConfigs
  /\ bib = StatsBib
  /\ queryString = <<>> /\ runOutput = NullOutput /\ matchedBib = <<>>
  /\ nextUid = MaxRunBlocks + 1 /\ budget = 1
  /\ evalIn = Idle /\ evalOut = Idle /\ spanIn = Idle /\ spanOut = Idle
  /\ alerts = 0 /\ callIn = Idle /\ callOut = Idle

NextStats == Run

SpecStats == InitStats /\ [][NextStats]_vars

(***************************************************************************)
(* Properties of the term statistics of a run (SpecRun, SpecStats)         *)
(***************************************************************************)
\* every row of the three lists of the result
AllRows == runOutput.matched \o runOutput.partial \o runOutput.unmatched

\* C18: after a run the name of a NOT block is in no report of the run: in the hit map of
\* no row, in the matched-blocks list of no record, and neither in perBlock nor in
\* topByBlock of the term statistics
C18_NotBlocksNeverReported ==
  RunDone =>
    \A i \in 1..Len(cfg.blocks) :
       Flag(cfg.blocks[i], "exclude") =>
         /\ \A r \in 1..Len(AllRows) :
               blockName(cfg.blocks[i], i - 1) \notin SeqRange(ObjKeys(AllRows[r].MatchedTermsMap))
         /\ \A k \in 1..Len(RunRecords) :
               blockName(cfg.blocks[i], i - 1) \notin SeqRange(RunRecords[k].res.matchedBlocks)
         /\ blockName(cfg.blocks[i], i - 1) \notin SeqRange(ObjKeys(runOutput.termStats.perBlock))
         /\ blockName(cfg.blocks[i], i - 1) \notin SeqRange(ObjKeys(runOutput.termStats.topByBlock))

\* the hit lists of every block in every field of the matched row
HitsOfRow(row) ==
  UNION {SeqRange(row.MatchedTermsMap[b].val[f]) : b \in 1..Len(row.MatchedTermsMap), f \in SeqRange(FieldNames)}

\* the term, as typed or trimmed, is a hit of no matched row
NowhereHit(term) ==
  \A r \in 1..Len(runOutput.matched) : HitsOfRow(runOutput.matched[r]) \cap {term, Trim(term)} = {}

NoCounts == [docCount |-> 0, fields |-> [title |-> 0, abstract |-> 0, keywords |-> 0]]

\* C19: after a run perBlock has the name of every block of the configuration and under
\* it an entry for every term of the block that is not empty; the entry of a term
\* that hit in no matched record has docCount 0 and 0 for each of the three fields
C19_EveryTermHasEntry ==
  RunDone =>
    \A i \in 1..Len(cfg.blocks) :
       /\ ObjHas(runOutput.termStats.perBlock, blockName(cfg.blocks[i], i - 1))
       /\ \A k \in 1..Len(cfg.blocks[i].terms) :
             ~Blank(cfg.blocks[i].terms[k]) =>
               \E breakdown \in {ObjGet(runOutput.termStats.perBlock, blockName(cfg.blocks[i], i - 1))} :
                  /\ ObjHas(breakdown, Trim(cfg.blocks[i].terms[k]))
                  /\ NowhereHit(cfg.blocks[i].terms[k]) =>
                        ObjGet(breakdown, Trim(cfg.blocks[i].terms[k])) = NoCounts

\* a run with a matched record whose first block has a term that no matched record holds
C19_Witness ==
  /\ RunDone /\ runOutput.matched # <<>>
  /\ Len(cfg.blocks[1].terms) = 2 /\ NowhereHit(cfg.blocks[1].terms[2])
  /\ ~NowhereHit(cfg.blocks[1].terms[1])

\* the matched rows whose hit map has the term in a field of a block
RowsWith(term) == {r \in 1..Len(runOutput.matched) : term \in HitsOfRow(runOutput.matched[r])}

\* C20: the overall document count of a term is the number of matched records whose
\* hit map has the term in at least one field of at least one block, a record counting
\* once however many fields and blocks the term hit in; so the count is never more
\* than the number of matched records, and every term that hit has a count
C20_OncePerRecord ==
  RunDone =>
    /\ \A k \in 1..Len(runOutput.termStats.overallTop) :
          /\ runOutput.termStats.overallTop[k].docCount
                = Cardinality(RowsWith(runOutput.termStats.overallTop[k].term))
          /\ runOutput.termStats.overallTop[k].docCount <= Len(runOutput.matched)
    /\ \A r \in 1..Len(runOutput.matched) :
          HitsOfRow(runOutput.matched[r])
            \subseteq {runOutput.termStats.overallTop[k].term : k \in 1..Len(runOutput.termStats.overallTop)}

\* a run with a matched record that holds a term in two fields for two blocks
C20_Witness ==
  /\ RunDone /\ Len(cfg.blocks) = 2
  /\ \E r \in 1..Len(runOutput.matched) :
        /\ Len(runOutput.matched[r].MatchedTermsMap) = 2
        /\ \A b \in 1..2 : /\ <<"a", "a">> \in SeqRange(runOutput.matched[r].MatchedTermsMap[b].val.title)
                            /\ <<"a", "a">> \in SeqRange(runOutput.matched[r].MatchedTermsMap[b].val.abstract)
  /\ \E k \in 1..Len(runOutput.termStats.overallTop) :
        /\ runOutput.termStats.overallTop[k].term = <<"a", "a">>
        /\ runOutput.termStats.overallTop[k].docCount = 1

(***************************************************************************)
(* Saving and loading the configuration: saveConfig, loadConfig and the    *)
(* edits of the block editor in between                                    *)
(***************************************************************************)
MaxSaves == 3

\* terms typed into a term input: plain, and with a quote and a backslash
SaveTerms == {<<"a", "a">>, <<"\"", "a", "\\">>}

\* the optional properties of a block: none, as parseBooleanQuery and the switches leave them
SaveFlags == {<<>>, [isRegex |-> TRUE, exclude |-> FALSE], [isRegex |-> FALSE, exclude |-> TRUE]}

SaveBlock(i, t, flags) == Spread([id |-> i, name |-> "Group " \o ToString(i), terms |-> <<t>>], flags)

\* the configurations of at most two blocks
SaveConfigs ==
  UNION {{[caseInsensitive |-> ci,
           searchFields |-> [title |-> TRUE, abstract |-> TRUE, keywords |-> TRUE],
           blocks |-> [i \in 1..n |-> SaveBlock(i, ts[i], fs[i])],
           operators |-> ops] :
            ci \in BOOLEAN, ts \in [1..n -> SaveTerms], fs \in [1..n -> SaveFlags],
            ops \in [1..MaxOf({0, n - 1}) -> {"AND", "OR"}]} : n \in 0..2}

InitSave ==
  /\ cfg \in SaveConfigs
  /\ bib = HitBib \o MissBib
  /\ queryString = <<>> /\ runOutput = NullOutput /\ matchedBib = <<>>
  /\ nextUid = 3 /\ budget = MaxSaves
  /\ evalIn = Idle /\ evalOut = Idle /\ spanIn = Idle /\ spanOut = Idle
  /\ alerts = 0 /\ callIn = Idle /\ callOut = Idle

EditSaveTerm == EditTermFrom(SaveTerms)

NextSave ==
  \/ SaveConfig
  \/ LoadConfig
  \/ EditSaveTerm
  \/ SetBlockExclude

SpecSave == InitSave /\ [][NextSave]_vars

\* the two configurations have the same blocks (name, terms, isRegex, exclude, in order),
\* operators, caseInsensitive and searchFields
SameQuery(a, b) ==
  /\ Len(a.blocks) = Len(b.blocks)
  /\ \A i \in 1..Len(a.blocks) :
        /\ a.blocks[i].name = b.blocks[i].name
        /\ a.blocks[i].terms = b.blocks[i].terms
        /\ Flag(a.blocks[i], "isRegex") = Flag(b.blocks[i], "isRegex")
        /\ Flag(a.blocks[i], "exclude") = Flag(b.blocks[i], "exclude")
  /\ a.operators = b.operators
  /\ a.caseInsensitive = b.caseInsensitive
  /\ a.searchFields = b.searchFields

\* the citation keys of the Matched, Partial and Unmatched lists of a run of configuration c
BucketsOf(c, entries) ==
  With(runOver(c, entries).output, LAMBDA out :
    <<CiteKeysOf(out.matched), CiteKeysOf(out.partial), CiteKeysOf(out.unmatched)>>)

\* C21: loading the file that saveConfig wrote from a configuration yields a configuration
\* with the same blocks (name, terms, isRegex, exclude, in order), operators,
\* caseInsensitive and searchFields, which sorts the records of the same text into the
\* same Matched, Partial and Unmatched lists
C21_SaveLoadRoundTrip ==
  ("result" \in DOMAIN callIn) =>
     /\ ~callIn.result.threw
     /\ callIn.result.set
     /\ SameQuery(callIn.result.cfg, callOut.saved)
     /\ \E entries \in {parseBibtexEntries(bib).entries} :
           BucketsOf(callIn.result.cfg, entries) = BucketsOf(callOut.saved, entries)

\* a configuration whose term holds a quote and a backslash and whose second block is a
\* NOT block has been saved and loaded again
C21_Witness ==
  /\ "result" \in DOMAIN callIn
  /\ budget = 0
  /\ cfg # DEFAULT_CONFIG
  /\ Len(cfg.blocks) = 2
  /\ cfg.blocks[1].terms = <<<<"\"", "a", "\\">>>>
  /\ Flag(cfg.blocks[2], "exclude")
  /\ cfg = callOut.saved


(***************************************************************************)
(* collectSpans step by step: one rx.exec(text) at a time for each pattern *)
(* of arr, then the sort and the picking loop                              *)
(***************************************************************************)
MaxText == 3

\* the texts of at most MaxText characters over a, b and the space
CollectTexts == UNION {[1..n -> {"a", "b", " "}] : n \in 0..MaxText}

\* the hit lists the patterns are compiled from: "a", "ab", "a" and "ab", the term "*"
\* (its pattern matches the empty string), and the regex term "b?"
CollectPatterns ==
  {compileRegexForBlockField(TRUE, h.isRegex, h.hits, FALSE).re :
     h \in {[isRegex |-> FALSE, hits |-> << <<"a">> >>],
            [isRegex |-> FALSE, hits |-> << <<"a", "b">> >>],
            [isRegex |-> FALSE, hits |-> << <<"*">> >>],
            [isRegex |-> TRUE, hits |-> << <<"b", "?">> >>]}}

\* one or two patterns, of blocks A and B
CollectArrs ==
  {<<[block |-> "A", re |-> ra]>> : ra \in CollectPatterns}
  \cup {<<[block |-> "A", re |-> ra], [block |-> "B", re |-> rb]>> : ra \in CollectPatterns, rb \in CollectPatterns}

InitCollect ==
  /\ callIn \in {[text |-> t, arr |-> arr] : t \in CollectTexts, arr \in CollectArrs}
  /\ callOut = [phase |-> "scan", k |-> 1, lastIndex |-> 0, spans |-> <<>>]
  /\ cfg = DEFAULT_CONFIG /\ bib = <<>> /\ queryString = <<>> /\ runOutput = NullOutput /\ matchedBib = <<>>
  /\ nextUid = 4 /\ budget = 0
  /\ evalIn = Idle /\ evalOut = Idle /\ spanIn = Idle /\ spanOut = Idle
  /\ alerts = 0

\* one evaluation of the condition of the while loop, with the body when a match is
\* found; when none is found the for loop goes on to the next pattern, whose rx is new
ExecNext ==
  /\ callOut.phase = "scan"
  /\ callOut.k <= Len(callIn.arr)
  /\ \E st \in {execStep(callIn.text, callIn.arr[callOut.k].block, callIn.arr[callOut.k].re,
                         [lastIndex |-> callOut.lastIndex, spans |-> callOut.spans, done |-> FALSE])} :
        callOut' = IF st.done THEN [callOut EXCEPT !.k = callOut.k + 1, !.lastIndex = 0]
                   ELSE [callOut EXCEPT !.lastIndex = st.lastIndex, !.spans = st.spans]
  /\ UNCHANGED <<cfg, bib, queryString, runOutput, matchedBib, nextUid, budget, evalIn, evalOut, spanIn, spanOut, alerts, callIn>>

\* after the for loop: the sort, the picking loop and the return
PickSpans ==
  /\ callOut.phase = "scan"
  /\ callOut.k > Len(callIn.arr)
  /\ callOut' = [phase |-> "done", spans |-> callOut.spans, picked |-> pickSpans(callOut.spans)]
  /\ UNCHANGED <<cfg, bib, queryString, runOutput, matchedBib, nextUid, budget, evalIn, evalOut, spanIn, spanOut, alerts, callIn>>

NextCollect == ExecNext \/ PickSpans

SpecCollect == InitCollect /\ [][NextCollect]_vars

SpanLen(sp) == sp.end - sp.start

\* span a comes before span b in (ascending start, longer first) order; spans that agree
\* in both keep the order in which they were pushed
ComesBefore(spans, i, j) ==
  \/ spans[i].start < spans[j].start
  \/ spans[i].start = spans[j].start /\ SpanLen(spans[i]) > SpanLen(spans[j])
  \/ spans[i].start = spans[j].start /\ SpanLen(spans[i]) = SpanLen(spans[j]) /\ i < j

\* the candidate that is first in order among those of the set
FirstOf(spans, S) == CHOOSE i \in S : \A j \in S \ {i} : ComesBefore(spans, i, j)

\* the candidates that may follow the kept candidate i: after it in order, starting at or past its end
Followers(spans, i) == {j \in 1..Len(spans) : ComesBefore(spans, i, j) /\ spans[j].start >= spans[i].end}

\* the index of the candidate that is the k-th span picked
IndexOfPicked(spans, picked, k) == CHOOSE i \in 1..Len(spans) : spans[i] = picked[k]

\* C22: collectSpans returns its spans in non-decreasing start order; the first span
\* kept is the first candidate in (ascending start, longer first) order, each further
\* one is the first candidate in that order whose start is at or past the end of the
\* span kept before it, and no other candidate is kept; so among candidates with the
\* same start a shorter one is never kept in place of a longer one
C22_PickedInOrder ==
  (callOut.phase = "done") =>
    \E spans \in {callOut.spans}, picked \in {callOut.picked} :
      /\ \A k \in 1..(Len(picked) - 1) : picked[k].start <= picked[k + 1].start
      /\ \A k \in 1..Len(picked) : \E i \in 1..Len(spans) : spans[i] = picked[k]
      /\ (spans = <<>>) = (picked = <<>>)
      /\ picked # <<>> => picked[1] = spans[FirstOf(spans, 1..Len(spans))]
      /\ \A k \in 1..Len(picked) :
            \E fs \in {Followers(spans, IndexOfPicked(spans, picked, k))} :
              IF k = Len(picked) THEN fs = {} ELSE fs # {} /\ picked[k + 1] = spans[FirstOf(spans, fs)]
      /\ \A k \in 1..Len(picked), i \in 1..Len(spans) :
            spans[i].start = picked[k].start => SpanLen(spans[i]) <= SpanLen(picked[k])

\* in "ab " the pattern of "*" matches "ab" at offset 0, where the pattern of "b?"
\* matches the empty string: the longer span is kept and the shorter one dropped, and
\* spans at and after offset 2 are kept as well
C22_Witness ==
  /\ callOut.phase = "done"
  /\ callIn.text = <<"a", "b", " ">>
  /\ Len(callIn.arr) = 2
  /\ \E i, j \in 1..Len(callOut.spans) :
        /\ callOut.spans[i].start = 0 /\ callOut.spans[j].start = 0
        /\ SpanLen(callOut.spans[i]) = 0 /\ SpanLen(callOut.spans[j]) = 2
        /\ callOut.picked[1] = callOut.spans[j]
  /\ Len(callOut.spans) > Len(callOut.picked)
  /\ Len(callOut.picked) >= 2


\* C23: the exec loop of collectSpans terminates for every text and every pattern, also
\* one that matches the empty string: every exec that finds a match pushes one span and
\* moves the scan position forward by at least one, never past the length of the text
\* plus one, and an exec that finds none ends the loop of its pattern; so a pattern
\* yields at most Len(text) + 1 spans
C23_ScanAdvances ==
  [][(callOut.phase = "scan" /\ callOut'.phase = "scan") =>
       /\ \/ /\ callOut'.k = callOut.k + 1
             /\ callOut'.spans = callOut.spans
          \/ /\ callOut'.k = callOut.k
             /\ callOut'.lastIndex > callOut.lastIndex
             /\ callOut'.lastIndex <= Len(callIn.text) + 1
             /\ Len(callOut'.spans) = Len(callOut.spans) + 1
       /\ \A b \in {callIn.arr[i].block : i \in 1..Len(callIn.arr)} :
             Len(SelectSeq(callOut'.spans, LAMBDA sp : sp.block = b)) <= Len(callIn.text) + 1]_vars

\* the pattern of the term "*" has been run over "a b" to the end: it matched the empty
\* string after the last character, and the loop is over
C23_Witness ==
  /\ callOut.phase = "done"
  /\ callIn.text = <<"a", " ", "b">>
  /\ callIn.arr = <<[block |-> "A", re |-> compileRegexForBlockField(TRUE, FALSE, << <<"*">> >>, FALSE).re]>>
  /\ \E i \in 1..Len(callOut.spans) : callOut.spans[i].start = callOut.spans[i].end

(***************************************************************************)
(* parseBooleanQuery alone, on every query written with a few tokens:      *)
(* words, parentheses, quotes and connectives in any order                 *)
(***************************************************************************)
MaxTokens == 4

\* a, (a), the parentheses, AND with and without spaces around it, OR, NOT and the two quotes
QueryTokens ==
  {<<"a">>, <<"(", "a", ")">>, <<"(">>, <<")">>, <<" ", "A", "N", "D", " ">>, <<"a", "n", "d">>,
   <<" ", "O", "R", " ">>, <<"N", "O", "T", " ">>, <<"\"">>, <<"'">>}

TokenQueries == UNION {{Concat(toks) : toks \in [1..n -> QueryTokens]} : n \in 1..MaxTokens}

InitTokens ==
  /\ callIn \in {[input |-> q] : q \in TokenQueries}
  /\ callOut = Idle
  /\ cfg = DEFAULT_CONFIG /\ bib = <<>> /\ queryString = <<>> /\ runOutput = NullOutput /\ matchedBib = <<>>
  /\ nextUid = 4 /\ budget = 0 /\ alerts = 0
  /\ evalIn = Idle /\ evalOut = Idle /\ spanIn = Idle /\ spanOut = Idle

NextTokens == ParseQuery

SpecTokens == InitTokens /\ [][NextTokens]_vars

\* the number of characters ch among the first j characters of g
CountOf(g, ch, j) == Cardinality({i \in 1..j : g[i] = ch})

\* the parentheses of g are balanced: as many close as open, and no prefix closes more than it opens
Balanced(g) ==
  /\ CountOf(g, "(", Len(g)) = CountOf(g, ")", Len(g))
  /\ \A j \in 1..Len(g) : CountOf(g, ")", j) <= CountOf(g, "(", j)

\* g starts with "(" and that parenthesis is closed by the last character of g
FullyEnclosed(g) ==
  /\ g # <<>> /\ Head(g) = "("
  /\ CountOf(g, "(", Len(g)) = CountOf(g, ")", Len(g))
  /\ \A j \in 1..(Len(g) - 1) : CountOf(g, ")", j) < CountOf(g, "(", j)

\* the terms of a group from which no parenthesis is stripped
TermsUnstripped(g) ==
  SelectSeq([i \in 1..Len(splitOn(g, <<"O", "R">>)) |-> Trim(stripQuotes(splitOn(g, <<"O", "R">>)[i]))] \o <<>>,
            LAMBDA t : t # <<>>)

NoQuotes(g) == \A i \in 1..Len(g) : g[i] \notin {"\"", "'"}

\* C25: (stated for queries of one group without quotes and without NOT) a group loses
\* its first and last character only when its first "(" is closed by its last ")";
\* the terms of any other group are those of the whole group, and no term of a group
\* with balanced parentheses has an unbalanced parenthesis
C25_OnlyEnclosingPairStripped ==
  (callOut # Idle /\ "input" \in DOMAIN callIn /\ ~("groups" \in DOMAIN callIn)) =>
     \E g \in {Trim(CollapseSpaces(callIn.input))} :
        (NoQuotes(g) /\ Len(callOut.blocks) = 1 /\ ~callOut.blocks[1].exclude /\ Balanced(g)) =>
           /\ ~FullyEnclosed(g) => callOut.blocks[1].terms = TermsUnstripped(g)
           /\ \A i \in 1..Len(callOut.blocks[1].terms) : Balanced(callOut.blocks[1].terms[i])

\* the quote that is open after the first i characters of s; "" when none is: a quote
\* character opens a quote when none is open, and only the same character closes it
RECURSIVE OpenQuoteAfter(_, _)
OpenQuoteAfter(s, i) ==
  IF i = 0 THEN ""
  ELSE With(OpenQuoteAfter(s, i - 1), LAMBDA q :
         IF q = "" THEN (IF s[i] \in {"\"", "'"} THEN s[i] ELSE "")
         ELSE IF s[i] = q THEN "" ELSE q)

\* the depth of parentheses after the first i characters of s: parentheses inside a
\* quote do not count, and a ")" at depth 0 leaves the depth at 0
RECURSIVE DepthAfter(_, _)
DepthAfter(s, i) ==
  IF i = 0 THEN 0
  ELSE With(DepthAfter(s, i - 1), LAMBDA d :
         CASE OpenQuoteAfter(s, i - 1) # "" -> d
           [] OpenQuoteAfter(s, i - 1) = "" /\ s[i] = "(" -> d + 1
           [] OpenQuoteAfter(s, i - 1) = "" /\ s[i] = ")" -> IF d > 0 THEN d - 1 ELSE 0
           [] OTHER -> d)

\* the word AND stands at 0-based offset i of s as a whole word, at depth 0 and outside a quote
TopLevelAnd(s, i) ==
  /\ i >= 1 /\ i + 3 <= Len(s)
  /\ MapUpper(SubSeq(s, i + 1, i + 3)) = <<"A", "N", "D">>
  /\ s[i] \in {" ", ")"}
  /\ i + 3 = Len(s) \/ s[i + 4] \in {" ", "("}
  /\ OpenQuoteAfter(s, i) = ""
  /\ DepthAfter(s, i) = 0

\* the pieces of s between the offsets of cuts (in ascending order), the three
\* characters at each offset left out
RECURSIVE PiecesBetween(_, _, _)
PiecesBetween(s, from, cuts) ==
  IF cuts = <<>> THEN <<Slice(s, from, Len(s))>>
  ELSE <<Slice(s, from, Head(cuts))>> \o PiecesBetween(s, Head(cuts) + 3, Tail(cuts))

\* the groups of the query: what stands between the top-level ANDs, trimmed, when not empty
GroupsOf(s) ==
  With(SelectSeq([i \in 1..Len(s) |-> i - 1] \o <<>>, LAMBDA i : TopLevelAnd(s, i)), LAMBDA cuts :
    SelectSeq([k \in 1..(Len(cuts) + 1) |-> Trim(PiecesBetween(s, 0, cuts)[k])] \o <<>>, LAMBDA g : g # <<>>))

\* C26: parseBooleanQuery starts a new group only at an AND that is a whole word
\* (after a space or ")", before a space, "(" or the end), at depth 0 of parentheses and
\* outside an open quote, a quote being closed only by the character that opened it:
\* its blocks are the groups between those ANDs, in order, so an AND inside
\* parentheses or inside a quoted phrase splits nothing
C26_SplitsAtTopLevelAnd ==
  (callOut # Idle /\ "input" \in DOMAIN callIn /\ ~("groups" \in DOMAIN callIn)) =>
     \E groups \in {GroupsOf(Trim(CollapseSpaces(callIn.input)))} :
        /\ Len(callOut.blocks) = Len(groups)
        /\ \A k \in 1..Len(groups) :
              /\ callOut.blocks[k].terms = parseGroup(groups[k]).terms
              /\ callOut.blocks[k].exclude = parseGroup(groups[k]).exclude

\* "(a AND a": the AND stands inside a parenthesis and the query is one group
C26_Witness ==
  /\ callOut # Idle
  /\ callIn = [input |-> <<"(", "a", " ", "A", "N", "D", " ", "a">>]
  /\ Len(callOut.blocks) = 1
  /\ callOut.blocks[1].terms = <<<<"(", "a", " ", "A", "N", "D", " ", "a">>>>

(***************************************************************************)
(* The export string of a sequence of runs (SpecRuns)                      *)
(***************************************************************************)
\* the entry of the citation key among the parsed entries
EntryOfKey(entries, key) == entries[CHOOSE k \in 1..Len(entries) : Prop(entries[k], K_citekey) = key]

\* C27: after every run the export string holds exactly the Matched records of that
\* run, one entry for each row of the published Matched list and in its order; after a
\* run that failed and published no result it holds no record at all
C27_ExportOfLastRun ==
  [][(bib' = bib /\ Run) =>
        IF runOutput'.isNull THEN matchedBib' = <<>>
        ELSE \E entries \in {parseBibtexEntries(bib).entries} :
                matchedBib' = JoinSeqs([k \in 1..Len(runOutput'.matched) |->
                                          buildBibEntry(EntryOfKey(entries, runOutput'.matched[k].CiteKey))] \o <<>>,
                                       <<"\n", "\n">>)]_vars

(***************************************************************************)
(* The Matched list on the screen between two runs (SpecShow): a run, then *)
(* edits of the configuration while its result is shown                    *)
(***************************************************************************)
MaxShows == 3

\* "@a{k1,title={aa Aa}}"
ShowBib ==
  <<"@", "a", "{", "k", "1", ",", "t", "i", "t", "l", "e", "=", "{", "a", "a", " ", "A", "a", "}", "}">>

\* "aa", "a."
ShowTerms == {<<"a", "a">>, <<"a", ".">>}

ShowConfigs ==
  {[caseInsensitive |-> ci,
    searchFields |-> [title |-> TRUE, abstract |-> TRUE, keywords |-> TRUE],
    blocks |-> <<[id |-> 1, name |-> "Group 1", terms |-> <<t>>, isRegex |-> r]>>,
    operators |-> <<>>] : t \in ShowTerms, r \in BOOLEAN, ci \in BOOLEAN}

InitShow ==
  /\ cfg \in ShowConfigs
  /\ bib = ShowBib
  /\ queryString = <<>> /\ runOutput = NullOutput /\ matchedBib = <<>>
  /\ nextUid = 2 /\ budget = MaxShows
  /\ evalIn = Idle /\ evalOut = Idle /\ spanIn = Idle /\ spanOut = Idle
  /\ alerts = 0 /\ callIn = Idle /\ callOut = Idle

\* the titles of the Matched tab as the component renders them from the published
\* result and the configuration of the moment:
\* highlightByBlocks(r.TitleRaw || r.Title || "", r.MatchedTermsMap, cfg, "title")
matchedTitleSpans(out, c) ==
  IF out.isNull THEN <<>>
  ELSE [r \in 1..Len(out.matched) |->
          highlightSpans(IF out.matched[r].TitleRaw # <<>> THEN out.matched[r].TitleRaw ELSE out.matched[r].Title,
                         out.matched[r].MatchedTermsMap, c, "title")] \o <<>>

\* a render of the Matched tab
ShowMatched ==
  /\ ~runOutput.isNull
  /\ spanIn' = [rows |-> runOutput.matched, cfg |-> cfg]
  /\ spanOut' = [titles |-> matchedTitleSpans(runOutput, cfg)]
  /\ spanOut' # spanOut
  /\ UNCHANGED <<cfg, bib, queryString, runOutput, matchedBib, nextUid, budget, evalIn, evalOut, alerts, callIn, callOut>>

NextShow ==
  \/ Run
  \/ ShowMatched
  \/ SetBlockName
  \/ SetBlockIsRegex
  \/ SetCaseInsensitive
  \/ RemoveBlock

SpecShow == InitShow /\ [][NextShow]_vars

\* C28: while a result is published, an edit of the configuration (a block renamed or
\* removed, isRegex or the case flag toggled) leaves the published result with its hit
\* maps as it is, and the spans highlighted in the titles of its Matched rows as well
C28_SpansFixedByRun ==
  [][(~runOutput.isNull /\ cfg' # cfg) =>
        /\ runOutput' = runOutput
        /\ matchedTitleSpans(runOutput', cfg') = matchedTitleSpans(runOutput, cfg)]_vars

(***************************************************************************)
(* The summary of a run (SpecRun)                                          *)
(***************************************************************************)
\* the cite keys of the parsed records of the text of the run
ParsedKeys == With(parseBibtexEntries(bib).entries, LAMBDA es : [k \in 1..Len(es) |-> Prop(es[k], K_citekey)] \o <<>>)

\* the places of the rows at which a row of the record with the cite key stands
PlacesOf(rows, key) == {i \in 1..Len(rows) : rows[i].CiteKey = key}

\* C29: after a run that completes the three counts of the report add up to the number
\* of eligible records, which is at most the number of parsed records, and no parsed
\* record has a row in more than one place of the Matched, Partial and Unmatched lists
C29_ReportAddsUp ==
  RunDone =>
    /\ runOutput.report.matched + runOutput.report.partial + runOutput.report.unmatched = runOutput.report.eligible
    /\ runOutput.report.eligible <= runOutput.report.total
    /\ \E keys \in {ParsedKeys}, rows \in {AllRows} :
          /\ runOutput.report.total = Len(keys)
          /\ \A k \in 1..Len(keys) : Cardinality(PlacesOf(rows, keys[k])) <= 1

\* a run with a row in each list and a record that is not eligible
C29_Witness ==
  /\ RunDone
  /\ runOutput.matched # <<>> /\ runOutput.partial # <<>> /\ runOutput.unmatched # <<>>
  /\ runOutput.report.eligible < runOutput.report.total
  /\ runOutput.report.eligible = Len(AllRows)

(***************************************************************************)
(* The header of an entry and its fields (SpecHeader): parseBibtexEntries  *)
(* on one chunk "@type{key,fields}" for a bounded family of fields         *)
(***************************************************************************)
MaxFields == 2

\* "title", "citekey", "CiteKey", "entry_type", "Entry_Type", "key"
HeaderFieldNames ==
  {K_title, K_citekey, <<"C", "i", "t", "e", "K", "e", "y">>, K_entry_type,
   <<"E", "n", "t", "r", "y", "_", "T", "y", "p", "e">>, <<"k", "e", "y">>}

\* "v", "a"
HeaderFieldValues == {<<"v">>, <<"a">>}

\* name={value}
HeaderFields == {name \o <<"=", "{">> \o val \o <<"}">> : name \in HeaderFieldNames, val \in HeaderFieldValues}

\* the field lists of a chunk, with a comma between two fields
HeaderFieldLists == UNION {[1..n -> HeaderFields] : n \in 0..MaxFields}

HeaderInputs ==
  {[type |-> type, key |-> <<"k">>,
    text |-> <<"@">> \o type \o <<"{", "k", ",">> \o JoinSeqs(fs, <<",">>) \o <<"}">>] :
      type \in {<<"a">>, <<"B">>}, fs \in HeaderFieldLists}

InitHeader ==
  /\ callIn \in HeaderInputs
  /\ callOut = Idle
  /\ cfg = DEFAULT_CONFIG /\ bib = <<>> /\ queryString = <<>> /\ runOutput = NullOutput /\ matchedBib = <<>>
  /\ nextUid = 4 /\ budget = 0 /\ alerts = 0
  /\ evalIn = Idle /\ evalOut = Idle /\ spanIn = Idle /\ spanOut = Idle

NextHeader == ParseEntries

SpecHeader == InitHeader /\ [][NextHeader]_vars

\* C30: the record of a chunk has the entry type and the citation key of the header of
\* the chunk, whatever the names of its fields, and run reads that key as its CiteKey
C30_HeaderNamesRecord ==
  callOut # Idle =>
     /\ ~callOut.threw /\ Len(callOut.entries) = 1
     /\ Prop(callOut.entries[1], K_entry_type) = callIn.type
     /\ Prop(callOut.entries[1], K_citekey) = callIn.key
     /\ rowBase(callOut.entries[1], recordFields(callOut.entries[1])).CiteKey = callIn.key

====
